---- MODULE Spec2Model ----
(***************************************************************************)
(* A model of the printsnmp agent (AsaavedraTecno/printsnmp).              *)
(*                                                                         *)
(*   Spec      the per-printer loop of processPrinters                    *)
(*             (src/cmd/agent/main.go) over the state store                *)
(*             (src/pkg/collector/state.go) and the telemetry builder,     *)
(*             serializer and file sink;                                   *)
(*   SpecHTTP  NewHTTPSink and HTTPSink.Write (src/pkg/sink/http_sink.go). *)
(*   SpecFan   DiscoveryScanner.Scan and DataCollector.CollectData, the    *)
(*             fan-outs limited by a semaphore;                            *)
(*   SpecID    collectNetworkInfo and Builder.buildPrinterID;              *)
(*   SpecCounters  collectCounters and Builder.buildCounters;              *)
(*   SpecSupplies  collectConsumiblesViaWalk, Builder.buildSupplies and    *)
(*             Builder.buildAlerts;                                        *)
(*   SpecSections  collectFromDevice and missing_sections;                 *)
(*   SpecProfile  the cache of the profile Manager under its RWMutex;      *)
(*   SpecRange  ParseIPRange;                                              *)
(*   SpecGetMultiple  SNMPClient.GetMultiple;                              *)
(*   SpecFanFair  SpecFan with weak fairness of the goroutines' steps;     *)
(*   SpecPolls  the polls of one address, whole loop bodies with history;  *)
(*   SpecValidation  DiscoverAndSave, UpdateValidation, NeedsRediscovery.  *)
(*                                                                         *)
(* Every variable is declared once; a specification leaves the variables   *)
(* of the other subsystems at their initial values.                        *)
(***************************************************************************)
EXTENDS Integers, Sequences, FiniteSets, TLC

VARIABLES
    \* ---- state store and processPrinters ----
    stateFile,      \* state/printer_<ip>.json, per IP
    pc,             \* position of the run inside processPrinters
    printerData,    \* the PrinterData of the printer being processed
    loaded,         \* what LoadState returned inside CalculateDelta
    delta,          \* local delta of the loop body (*CountersDiff)
    resetDetected,  \* local resetDetected of the loop body
    saveErr,        \* outcome of SaveState in this iteration
    telem,          \* the Telemetry returned by Build
    jsonBytes,      \* the bytes returned by Serialize
    sinkErr,        \* outcome of fileSink.Write in this iteration
    \* ---- HTTPSink ----
    config,         \* the HTTPSinkConfig handed to NewHTTPSink
    hs,             \* the HTTPSink built from it
    wpc,            \* position inside HTTPSink.Write
    attempt,        \* loop variable of Write
    waitDuration,   \* local waitDuration of Write
    lastErr,        \* local lastErr of Write
    result,         \* what Write returned
    posts,          \* number of POST attempts made by this Write
    lastStatus,     \* the response of the latest POST attempt
    waits,          \* the duration waited before each retry, in order
    ctxDone,        \* ctx.Done() of the context handed to Write is closed
    errCount,       \* the number (%d) carried by the error Write returned
    \* ---- DiscoveryScanner.Scan and DataCollector.CollectData ----
    fpc,            \* position of the caller inside Scan / CollectData
    fkind,          \* which of the two fan-outs is running
    inputs,         \* the ips (Scan) or devices (CollectData) handed in
    maxConcurrent,  \* MaxConcurrentConnections, the semaphore's capacity
    gpc,            \* position of the goroutine of each input
    outcome,        \* how the probe / collection of each input ended
    semaphore,      \* number of slots held in the semaphore channel
    resultsChan,    \* the buffered results channel
    chanClosed,     \* close(resultsChan) has run
    results,        \* the results slice of the caller
    \* ---- printer identity ----
    device,         \* what the device answers to the identity requests
    printerIDs,     \* printer.id of the events of the polls of the device
    \* ---- collectCounters ----
    cpc,            \* position of the poll: collecting, building, built
    readings,       \* what the device answers to the counter requests
    collected,      \* the counters of the PrinterData after collectCounters
    snapshot,       \* counters.absolute of the event buildCounters returns
    \* ---- supplies and alerts ----
    spc,            \* position of the poll: idle, collected, built
    supplyTable,    \* the rows of the device's supplies table
    dataSupplies,   \* data.Supplies of the PrinterData
    eventSupplies,  \* supplies of the event Build returns
    eventAlerts,    \* alerts of the event Build returns
    \* ---- collectFromDevice: sections ----
    mpc,            \* position of collectFromDevice: idle, returned
    sectionDevice,  \* what the device answers during the collection
    sections,       \* the buckets and missing_sections of the PrinterData
    \* ---- profile Manager ----
    cache,          \* m.cache[printerID] of the Manager
    disk,           \* the profile file of the printer id
    mu,             \* m.mu: readers holding it, writer holding it
    prpc,           \* position of each goroutine inside its call
    prLoaded,       \* each goroutine's local profile p
    prReturn,       \* what the latest GetOrDiscover of each returned
    lastSaved,      \* the profile of the latest SaveProfile
    calls,          \* calls made so far
    \* ---- ParseIPRange ----
    rpc,            \* position of main: idle, parsed
    rangeInput,     \* the range handed to ParseIPRange
    parseResult,    \* what ParseIPRange returned: error or list
    \* ---- SNMPClient.GetMultiple ----
    gmpc,           \* position inside GetMultiple: idle, get, returned
    clientBuild,    \* which GetMultiple the agent is built with
    oidCount,       \* len(oids)
    batchStart,     \* loop variable batchStart
    getRequests,    \* the OIDs of each underlying GET sent, in order
    values,         \* the OIDs that have a value in the mapping
    gmErr,          \* GetMultiple returns an error
    \* ---- the polls of one address ----
    pollFile,       \* content of the state file of the address
    fileWriter,     \* printer.id of the poll that wrote the state file (history)
    pollPrinter,    \* printer.id of the latest poll
    pollRead,       \* the PrinterData of the latest poll
    pollEvent,      \* counters of the event of the latest poll
    pollQueued,     \* whether the event of the latest poll was queued
    lastQueued,     \* id and absolute counters of the latest queued event (history)
    lastRead,       \* counters of the latest poll that had counters (history)
    resetSince,     \* a counter went down or another printer answered since the latest queued event (history)
    \* ---- the validity of a profile ----
    cachedProfile,  \* the profile of the printer in the cache of the Manager
    sinceDiscovery, \* what happened since the latest successful DiscoverAndSave (history)
    needsRediscovery\* what NeedsRediscovery returned, when asked in this state

agentVars == <<stateFile, pc, printerData, loaded, delta, resetDetected,
               saveErr, telem, jsonBytes, sinkErr>>
httpVars == <<config, hs, wpc, attempt, waitDuration, lastErr, result,
              posts, lastStatus, waits, ctxDone, errCount>>
fanVars == <<fpc, fkind, inputs, maxConcurrent, gpc, outcome, semaphore,
             resultsChan, chanClosed, results>>
idVars == <<device, printerIDs>>
counterVars == <<cpc, readings, collected, snapshot>>
supplyVars == <<spc, supplyTable, dataSupplies, eventSupplies, eventAlerts>>
sectionVars == <<mpc, sectionDevice, sections>>
profileVars == <<cache, disk, mu, prpc, prLoaded, prReturn, lastSaved, calls>>
rangeVars == <<rpc, rangeInput, parseResult>>
getMultipleVars == <<gmpc, clientBuild, oidCount, batchStart, getRequests, values, gmErr>>
pollVars == <<pollFile, fileWriter, pollPrinter, pollRead, pollEvent, pollQueued, lastQueued, lastRead, resetSince>>
validationVars == <<cachedProfile, sinceDiscovery, needsRediscovery>>
vars == <<agentVars, httpVars, fanVars, idVars, counterVars, supplyVars, sectionVars, profileVars, rangeVars, getMultipleVars, pollVars, validationVars>>

\* What the actions of one subsystem leave alone.
nonAgentVars == <<httpVars, fanVars, idVars, counterVars, supplyVars, sectionVars, profileVars, rangeVars, getMultipleVars, pollVars, validationVars>>
nonHTTPVars == <<agentVars, fanVars, idVars, counterVars, supplyVars, sectionVars, profileVars, rangeVars, getMultipleVars, pollVars, validationVars>>
nonFanVars == <<agentVars, httpVars, idVars, counterVars, supplyVars, sectionVars, profileVars, rangeVars, getMultipleVars, pollVars, validationVars>>
nonIDVars == <<agentVars, httpVars, fanVars, counterVars, supplyVars, sectionVars, profileVars, rangeVars, getMultipleVars, pollVars, validationVars>>
nonCounterVars == <<agentVars, httpVars, fanVars, idVars, supplyVars, sectionVars, profileVars, rangeVars, getMultipleVars, pollVars, validationVars>>
nonSupplyVars == <<agentVars, httpVars, fanVars, idVars, counterVars, sectionVars, profileVars, rangeVars, getMultipleVars, pollVars, validationVars>>
nonSectionVars == <<agentVars, httpVars, fanVars, idVars, counterVars, supplyVars, profileVars, rangeVars, getMultipleVars, pollVars, validationVars>>
nonProfileVars == <<agentVars, httpVars, fanVars, idVars, counterVars, supplyVars, sectionVars, rangeVars, getMultipleVars, pollVars, validationVars>>
nonRangeVars == <<agentVars, httpVars, fanVars, idVars, counterVars, supplyVars, sectionVars, profileVars, getMultipleVars, pollVars, validationVars>>
nonGetMultipleVars == <<agentVars, httpVars, fanVars, idVars, counterVars, supplyVars, sectionVars, profileVars, rangeVars, pollVars, validationVars>>
nonPollVars == <<agentVars, httpVars, fanVars, idVars, counterVars, supplyVars, sectionVars, profileVars, rangeVars, getMultipleVars, validationVars>>
nonValidationVars == <<agentVars, httpVars, fanVars, idVars, counterVars, supplyVars, sectionVars, profileVars, rangeVars, getMultipleVars, pollVars>>

(***************************************************************************)
(* Bounds of the model.                                                    *)
(***************************************************************************)
\* The counters read by one poll add up to at most MaxPages.
MaxPages == 2

\* The IP addresses of the printers polled.
IPs == {"10.0.0.5"}

(***************************************************************************)
(* CountersInfo / CountersDiff: six int64 fields.                          *)
(***************************************************************************)
Fields == {"total_pages", "mono_pages", "color_pages",
           "scan_pages", "copy_pages", "fax_pages"}

\* A key that is absent from a counters map.
Missing == -1

ZeroCounters == [f \in Fields |-> 0]

\* The counters map that holds, for each name, the number of times the name
\* occurs in pages (no entry for a name that does not occur).
MapOf(pages) ==
    [f \in Fields |->
        LET n == Cardinality({i \in DOMAIN pages : pages[i] = f})
        IN IF n = 0 THEN Missing ELSE n]

\* The NormalizedCounters maps a poll can produce: each of the six names is
\* absent or holds a value > 0 (collectCounters keeps only 0 < v <= 3e9);
\* in the model the values of one map add up to at most MaxPages.
CounterMaps ==
    {MapOf(pages) : pages \in UNION {[1..n -> Fields] : n \in 0..MaxPages}}

\* PrinterData as far as the loop body reads it: the IP, the six named
\* counters, whether the map holds keys other than the six names
\* (counter_<oid> entries), which makes len(map) > 0 on its own, and whether
\* the device answered any query of collectFromDevice (when it answered
\* none, every section of the PrinterData is empty).
PrinterDatas ==
    {pd \in [IP : IPs, NormalizedCounters : CounterMaps, otherKeys : BOOLEAN,
             Answered : BOOLEAN] :
        /\ pd.otherKeys => \A f \in Fields : pd.NormalizedCounters[f] = Missing
        /\ ~pd.Answered =>
              /\ ~pd.otherKeys
              /\ \A f \in Fields : pd.NormalizedCounters[f] = Missing}

NoPrinterData ==
    [IP |-> CHOOSE ip \in IPs : TRUE,
     NormalizedCounters |-> [f \in Fields |-> Missing],
     otherKeys |-> FALSE,
     Answered |-> FALSE]

\* len(printerData.NormalizedCounters) > 0 || len(printerData.Counters) > 0
HasCounters(pd) ==
    pd.otherKeys \/ \E f \in Fields : pd.NormalizedCounters[f] # Missing

\* extractCounterInt64: 0 for an absent key, the value of an int64 entry.
extractCounterInt64(counters, key) ==
    IF counters[key] = Missing THEN 0 ELSE counters[key]

\* currentCounters := collector.CountersInfo{...}
CurrentCounters(pd) ==
    [f \in Fields |-> extractCounterInt64(pd.NormalizedCounters, f)]

(***************************************************************************)
(* The state store.                                                        *)
(***************************************************************************)
\* Content of a state file: no file, a file whose bytes are not a JSON
\* document (empty or cut short), or a complete PrinterState.
Absent == [kind |-> "absent", counters |-> ZeroCounters]
Garbage == [kind |-> "garbage", counters |-> ZeroCounters]
StateOf(counters) == [kind |-> "state", counters |-> counters]

NotLoaded == [called |-> FALSE, present |-> FALSE, err |-> FALSE,
              counters |-> ZeroCounters]

\* LoadState: (nil, nil) when the file does not exist, (nil, err) when it
\* cannot be parsed, (&state, nil) otherwise.
LoadState(content) ==
    IF content.kind = "absent"
    THEN [called |-> TRUE, present |-> FALSE, err |-> FALSE,
          counters |-> ZeroCounters]
    ELSE IF content.kind = "garbage"
    THEN [called |-> TRUE, present |-> FALSE, err |-> TRUE,
          counters |-> ZeroCounters]
    ELSE [called |-> TRUE, present |-> TRUE, err |-> FALSE,
          counters |-> content.counters]

NilDelta == [present |-> FALSE, value |-> ZeroCounters]

\* A plausible slip: a state that cannot be read is reported as a reset.
CalculateDeltaErrIsReset(previousState, currentCounters) ==
    IF previousState.err
    THEN [delta |-> NilDelta, reset |-> TRUE]
    ELSE IF ~previousState.present
    THEN [delta |-> NilDelta, reset |-> FALSE]
    ELSE IF currentCounters["total_pages"] < previousState.counters["total_pages"]
    THEN [delta |-> NilDelta, reset |-> TRUE]
    ELSE [delta |-> [present |-> TRUE,
                     value |-> [f \in Fields |->
                         currentCounters[f] - previousState.counters[f]]],
          reset |-> FALSE]

\* CalculateDelta after its LoadState call: previousState is what LoadState
\* returned.
CalculateDelta(previousState, currentCounters) ==
    IF previousState.err
    THEN [delta |-> NilDelta, reset |-> FALSE]
    ELSE IF ~previousState.present
    THEN [delta |-> NilDelta, reset |-> FALSE]
    ELSE IF currentCounters["total_pages"] < previousState.counters["total_pages"]
    THEN [delta |-> NilDelta, reset |-> TRUE]
    ELSE [delta |-> [present |-> TRUE,
                     value |-> [f \in Fields |->
                         currentCounters[f] - previousState.counters[f]]],
          reset |-> FALSE]

(***************************************************************************)
(* The telemetry builder.                                                  *)
(***************************************************************************)
NoSnapshot == [present |-> FALSE, absolute |-> ZeroCounters,
               delta |-> NilDelta, reset_detected |-> FALSE]

\* Builder.extractCounter on one key: 0 when absent, the int64 value.
extractCounter(counters, key) ==
    IF counters[key] = Missing THEN 0 ELSE counters[key]

\* Builder.buildCounters: nil when the map is empty.
buildCounters(data, d, reset) ==
    IF ~HasCounters(data) THEN NoSnapshot
    ELSE [present |-> TRUE,
          absolute |-> [f \in Fields |-> extractCounter(data.NormalizedCounters, f)],
          delta |-> d,
          reset_detected |-> reset]

NoTelemetry == [built |-> FALSE, ip |-> NoPrinterData.IP, counters |-> NoSnapshot]

\* Builder.Build, as far as identity by IP and the counters go.
Build(data, d, reset) ==
    [built |-> TRUE, ip |-> data.IP, counters |-> buildCounters(data, d, reset)]

NoBytes == [present |-> FALSE, event |-> NoTelemetry]

\* Serializer.Serialize: the JSON document of the event.
Serialize(t) == [present |-> TRUE, event |-> t]


(***************************************************************************)
(* processPrinters: the body of the loop over printerDataList.             *)
(***************************************************************************)
\* A plausible reordering: the state is saved once the event is serialized.
LoopBodySaveAfterSerialize(step, hasCounters) ==
    CASE step = "start" -> IF hasCounters THEN "calc" ELSE "build"
      [] step = "calc" -> "build"
      [] step = "build" -> "serialize"
      [] step = "serialize" -> IF hasCounters THEN "save" ELSE "sink"
      [] step = "save" -> "sink"
      [] step = "sink" -> "done"

\* The order of the statements of the loop body: 0. CalculateDelta and
\* SaveState (only when the printer has counters), 1. Build, 2. Serialize,
\* 3. fileSink.Write.
LoopBody(step, hasCounters) ==
    CASE step = "start" -> IF hasCounters THEN "calc" ELSE "build"
      [] step = "calc" -> "save"
      [] step = "save" -> "build"
      [] step = "build" -> "serialize"
      [] step = "serialize" -> "sink"
      [] step = "sink" -> "done"

Running == {"calc", "save", "saving", "build", "serialize", "sink"}

ResetLocals ==
    /\ loaded' = NotLoaded
    /\ delta' = NilDelta
    /\ resetDetected' = FALSE
    /\ saveErr' = "none"
    /\ telem' = NoTelemetry
    /\ jsonBytes' = NoBytes
    /\ sinkErr' = "none"

AgentInit ==
    /\ stateFile = [ip \in IPs |-> Absent]
    /\ pc = "idle"
    /\ printerData = NoPrinterData
    /\ loaded = NotLoaded
    /\ delta = NilDelta
    /\ resetDetected = FALSE
    /\ saveErr = "none"
    /\ telem = NoTelemetry
    /\ jsonBytes = NoBytes
    /\ sinkErr = "none"

\* A run of the agent reaches the loop with the PrinterData of one printer.
StartRun(pd) ==
    /\ UNCHANGED nonAgentVars
    /\ pc \in {"idle", "done", "fatal"}
    /\ printerData' = pd
    /\ ResetLocals
    /\ pc' = LoopBody("start", HasCounters(pd))
    /\ UNCHANGED stateFile

\* sink.NewFileSink fails: log.Fatalf ends the run before the loop.
StartRunFatal ==
    /\ UNCHANGED nonAgentVars
    /\ pc \in {"idle", "done", "fatal"}
    /\ printerData' = NoPrinterData
    /\ ResetLocals
    /\ pc' = "fatal"
    /\ UNCHANGED stateFile

\* delta, resetDetected = stateManager.CalculateDelta(printerData.IP, currentCounters)
CalculateDeltaStep ==
    /\ UNCHANGED nonAgentVars
    /\ pc = "calc"
    /\ LET previousState == LoadState(stateFile[printerData.IP])
           r == CalculateDelta(previousState, CurrentCounters(printerData))
       IN /\ loaded' = previousState
          /\ delta' = r.delta
          /\ resetDetected' = r.reset
    /\ pc' = LoopBody("calc", HasCounters(printerData))
    /\ UNCHANGED <<stateFile, printerData, saveErr, telem, jsonBytes, sinkErr>>

\* SaveState, ioutil.WriteFile: the file is opened with O_CREATE|O_TRUNC,
\* which leaves it empty until the data is written.
SaveStateOpen ==
    /\ UNCHANGED nonAgentVars
    /\ pc = "save"
    /\ stateFile' = [stateFile EXCEPT ![printerData.IP] = Garbage]
    /\ pc' = "saving"
    /\ UNCHANGED <<printerData, loaded, delta, resetDetected, saveErr, telem,
                   jsonBytes, sinkErr>>

\* The file cannot be opened: SaveState returns the error, which is logged.
SaveStateOpenFail ==
    /\ UNCHANGED nonAgentVars
    /\ pc = "save"
    /\ saveErr' = "failed"
    /\ pc' = LoopBody("save", HasCounters(printerData))
    /\ UNCHANGED <<stateFile, printerData, loaded, delta, resetDetected, telem,
                   jsonBytes, sinkErr>>

\* The data is written and the file closed.
SaveStateWrite ==
    /\ UNCHANGED nonAgentVars
    /\ pc = "saving"
    /\ stateFile' = [stateFile EXCEPT
                       ![printerData.IP] = StateOf(CurrentCounters(printerData))]
    /\ saveErr' = "ok"
    /\ pc' = LoopBody("save", HasCounters(printerData))
    /\ UNCHANGED <<printerData, loaded, delta, resetDetected, telem, jsonBytes,
                   sinkErr>>

\* The write fails after the truncation: the error is logged, the file
\* stays cut short.
SaveStateWriteFail ==
    /\ UNCHANGED nonAgentVars
    /\ pc = "saving"
    /\ saveErr' = "failed"
    /\ pc' = LoopBody("save", HasCounters(printerData))
    /\ UNCHANGED <<stateFile, printerData, loaded, delta, resetDetected, telem,
                   jsonBytes, sinkErr>>

\* telem, err := builder.Build(&printerData, delta, resetDetected)
BuildStep ==
    /\ UNCHANGED nonAgentVars
    /\ pc = "build"
    /\ telem' = Build(printerData, delta, resetDetected)
    /\ pc' = LoopBody("build", HasCounters(printerData))
    /\ UNCHANGED <<stateFile, printerData, loaded, delta, resetDetected, saveErr,
                   jsonBytes, sinkErr>>

\* jsonBytes, err := ser.Serialize(telem)
SerializeStep ==
    /\ UNCHANGED nonAgentVars
    /\ pc = "serialize"
    /\ jsonBytes' = Serialize(telem)
    /\ pc' = LoopBody("serialize", HasCounters(printerData))
    /\ UNCHANGED <<stateFile, printerData, loaded, delta, resetDetected, saveErr,
                   telem, sinkErr>>

\* err = fileSink.Write(ctx, jsonBytes, printerData.IP): the event is in the
\* queue, or the write failed and the loop continues.
FileSinkWrite(ok) ==
    /\ UNCHANGED nonAgentVars
    /\ pc = "sink"
    /\ sinkErr' = IF ok THEN "ok" ELSE "failed"
    /\ pc' = LoopBody("sink", HasCounters(printerData))
    /\ UNCHANGED <<stateFile, printerData, loaded, delta, resetDetected, saveErr,
                   telem, jsonBytes>>

\* The process dies inside the loop body; the next run starts afresh with
\* whatever the state file holds.
Crash ==
    /\ UNCHANGED nonAgentVars
    /\ pc \in Running
    /\ pc' = "idle"
    /\ printerData' = NoPrinterData
    /\ ResetLocals
    /\ UNCHANGED stateFile

AgentNext ==
    \/ \E pd \in PrinterDatas : StartRun(pd)
    \/ StartRunFatal
    \/ CalculateDeltaStep
    \/ SaveStateOpen
    \/ SaveStateOpenFail
    \/ SaveStateWrite
    \/ SaveStateWriteFail
    \/ BuildStep
    \/ SerializeStep
    \/ \E ok \in BOOLEAN : FileSinkWrite(ok)
    \/ Crash

(***************************************************************************)
(* HTTPSink.                                                               *)
(***************************************************************************)
\* Largest MaxRetries a configuration of the model asks for.
MaxCfgRetries == 3

\* config.MaxRetries = 3 when it is 0.
DefaultMaxRetries == 3

\* config.InitialWait = 1 * time.Second when it is 0 (durations in seconds).
DefaultInitialWait == 1

\* waitDuration > 60*time.Second
MaxWait == 60

\* The InitialWait values configured, in seconds.
InitialWaits == {-1, 0, 1, 20, 40, 60, 61, 90}

\* What a POST attempt ends with: no response at all (client.Do fails), or
\* the status code of the response.
TransportError == 0
Responses == {TransportError, 200, 204, 302, 400, 404, 429, 500, 503}

HTTPSinkConfigs ==
    [MaxRetries : -1..MaxCfgRetries, InitialWait : InitialWaits]

\* NewHTTPSink: the zero value of a field stands for its default.
NewHTTPSink(cfg) ==
    [maxRetries |-> IF cfg.MaxRetries = 0 THEN DefaultMaxRetries
                    ELSE cfg.MaxRetries,
     initialWait |-> IF cfg.InitialWait = 0 THEN DefaultInitialWait
                     ELSE cfg.InitialWait]

\* A plausible slip: only 200 counts as success.
IsSuccessOnly200(status) == status = 200

\* resp.StatusCode >= 200 && resp.StatusCode < 300
IsSuccess(status) == status >= 200 /\ status < 300

\* sendRequest: nil on 2xx, a SinkError on 4xx, a plain error otherwise
\* (client.Do failed, or any other status).
sendRequest(resp) ==
    IF resp = TransportError THEN "request_failed"
    ELSE IF IsSuccess(resp) THEN "nil"
    ELSE IF resp >= 400 /\ resp < 500 THEN "client_error"
    ELSE "server_error"

\* A plausible slip: the select of the wait has no ctx.Done() case.
SelectTimerOnly(done, w) == {"timer"}

\* select { case <-time.After(waitDuration): ... case <-ctx.Done(): ... }
\* the cases the select can take: the timer alone while the context is live;
\* ctx.Done() alone when the context is cancelled and the timer is pending;
\* either when the context is cancelled and the timer is due at once.
Select(done, w) ==
    IF ~done THEN {"timer"}
    ELSE IF w > 0 THEN {"ctx"}
    ELSE {"timer", "ctx"}

\* A plausible slip: the doubled wait is not capped.
NextWaitNoCap(w) == w * 2

\* waitDuration *= 2, capped at 60 s.
NextWait(w) == IF w * 2 > MaxWait THEN MaxWait ELSE w * 2

HTTPInit ==
    /\ config = [MaxRetries |-> 0, InitialWait |-> 0]
    /\ hs = [maxRetries |-> 0, initialWait |-> 0]
    /\ wpc = "new"
    /\ attempt = 0
    /\ waitDuration = 0
    /\ lastErr = "nil"
    /\ result = "none"
    /\ posts = 0
    /\ lastStatus = TransportError
    /\ waits = <<>>
    /\ ctxDone = FALSE
    /\ errCount = 0

\* hs := NewHTTPSink(cfg)
Construct(cfg) ==
    /\ UNCHANGED nonHTTPVars
    /\ wpc = "new"
    /\ config' = cfg
    /\ hs' = NewHTTPSink(cfg)
    /\ wpc' = "ready"
    /\ UNCHANGED <<attempt, waitDuration, lastErr, result, posts, lastStatus,
                   waits, ctxDone, errCount>>

\* Write is called: empty data is refused, otherwise the loop is entered.
WriteCall(empty) ==
    /\ UNCHANGED nonHTTPVars
    /\ wpc = "ready"
    /\ posts' = 0
    /\ waits' = <<>>
    /\ lastErr' = "nil"
    /\ waitDuration' = hs.initialWait
    /\ attempt' = 0
    /\ ctxDone' = FALSE
    /\ errCount' = 0
    /\ IF empty
       THEN result' = "empty_data" /\ wpc' = "returned"
       ELSE result' = "none" /\ wpc' = "loop"
    /\ UNCHANGED <<config, hs, lastStatus>>

\* for attempt := 0; attempt <= hs.maxRetries; attempt++ : the test of the
\* loop, and "return lastErr" once it fails.
LoopTest ==
    /\ UNCHANGED nonHTTPVars
    /\ wpc = "loop"
    /\ IF attempt <= hs.maxRetries
       THEN /\ wpc' = IF attempt > 0 THEN "wait" ELSE "send"
            /\ UNCHANGED result
       ELSE /\ result' = lastErr
            /\ wpc' = "returned"
    /\ UNCHANGED <<config, hs, attempt, waitDuration, lastErr, posts,
                   lastStatus, waits, ctxDone, errCount>>

\* The context handed to Write is cancelled while Write runs.
Cancel ==
    /\ UNCHANGED nonHTTPVars
    /\ wpc \in {"loop", "wait", "send"}
    /\ ~ctxDone
    /\ ctxDone' = TRUE
    /\ UNCHANGED <<config, hs, wpc, attempt, waitDuration, lastErr, result,
                   posts, lastStatus, waits, errCount>>

\* case <-time.After(waitDuration): the wait is over, the next one doubles.
WaitElapsed ==
    /\ UNCHANGED nonHTTPVars
    /\ wpc = "wait"
    /\ "timer" \in Select(ctxDone, waitDuration)
    /\ waits' = Append(waits, waitDuration)
    /\ waitDuration' = NextWait(waitDuration)
    /\ wpc' = "send"
    /\ UNCHANGED <<config, hs, attempt, lastErr, result, posts, lastStatus,
                   ctxDone, errCount>>

\* case <-ctx.Done(): Write returns the SinkError "context cancelled after
\* %d retries", attempt.
WaitCancelled ==
    /\ UNCHANGED nonHTTPVars
    /\ wpc = "wait"
    /\ "ctx" \in Select(ctxDone, waitDuration)
    /\ result' = "context_cancelled"
    /\ errCount' = attempt
    /\ wpc' = "returned"
    /\ UNCHANGED <<config, hs, attempt, waitDuration, lastErr, posts,
                   lastStatus, waits, ctxDone>>

\* err := hs.sendRequest(...) and what the loop body does with err; the
\* request carries ctx, so client.Do fails once the context is cancelled.
Send(resp) ==
    /\ UNCHANGED nonHTTPVars
    /\ wpc = "send"
    /\ ctxDone => resp = TransportError
    /\ posts' = posts + 1
    /\ lastStatus' = resp
    /\ LET err == sendRequest(resp)
       IN IF err = "nil"
          THEN /\ result' = "nil"
               /\ wpc' = "returned"
               /\ UNCHANGED <<lastErr, attempt, errCount>>
          ELSE /\ lastErr' = err
               /\ IF attempt = hs.maxRetries
                  THEN /\ result' = "failed_after_attempts"
                       /\ errCount' = hs.maxRetries + 1
                       /\ wpc' = "returned"
                       /\ UNCHANGED attempt
                  ELSE /\ attempt' = attempt + 1
                       /\ wpc' = "loop"
                       /\ UNCHANGED <<result, errCount>>
    /\ UNCHANGED <<config, hs, waitDuration, waits, ctxDone>>

\* Write has returned; the sink is ready for the next call.
WriteReturn ==
    /\ UNCHANGED nonHTTPVars
    /\ wpc = "returned"
    /\ wpc' = "ready"
    /\ UNCHANGED <<config, hs, attempt, waitDuration, lastErr, result, posts,
                   lastStatus, waits, ctxDone, errCount>>

HTTPNext ==
    \/ \E cfg \in HTTPSinkConfigs : Construct(cfg)
    \/ \E empty \in BOOLEAN : WriteCall(empty)
    \/ LoopTest
    \/ Cancel
    \/ WaitElapsed
    \/ WaitCancelled
    \/ \E resp \in Responses : Send(resp)
    \/ WriteReturn

(***************************************************************************)
(* DiscoveryScanner.Scan and DataCollector.CollectData: one goroutine per  *)
(* input, a counting semaphore, a buffered results channel, a WaitGroup.   *)
(***************************************************************************)
\* Longest list of IPs handed to Scan.
MaxInputs == 3

\* Largest MaxConcurrentConnections configured.
MaxConc == 2

\* The addresses scanned: 10.0.0.1, 10.0.0.2, ... (named by the last octet).
ScanIPs == 1..MaxInputs

\* The lists of IPs main hands to Scan: what ParseIPRange returns, the
\* ascending addresses of a range (a single address when the range is one
\* literal), or an empty list.
IPLists == {[i \in 1..n |-> i] : n \in 0..MaxInputs}

\* discovery.max_concurrent as configured; make(chan struct{}, n) panics
\* for a negative n.
MaxConcurrents == -1..MaxConc

\* How probeIP ends: ValidateConnection fails, the GET of sysDescr fails,
\* sysDescr is nil or empty, or the device is responsive.
ProbeOutcomes == {"validation_error", "sysdescr_error", "sysdescr_empty",
                  "responsive"}

\* How collectFromDevice ends: some query was answered, or none was.
CollectOutcomes == {"collected", "no_answer"}

\* probeIP: the DiscoveryResult of an IP.
probeIP(ip, out) == [IP |-> ip, IsResponsive |-> (out = "responsive")]

\* collectFromDevice: the PrinterData of a device; one is returned whether
\* or not the device answered.
collectFromDevice(ip, out) == [IP |-> ip, Answered |-> (out = "collected")]

\* A plausible slip: every result received is appended.
KeepResultAlways(kind, r) == TRUE

\* The receive loop of the caller: Scan appends the responsive results,
\* CollectData appends every result.
KeepResult(kind, r) == IF kind = "scan" THEN r.IsResponsive ELSE TRUE

\* A plausible slip: the semaphore admits one goroutine too many.
CanAcquireOffByOne(held, cap) == held <= cap

\* semaphore <- struct{}{} on a channel of capacity cap: the send goes
\* through while the buffer has room; with capacity 0 it needs a receiver,
\* and the only receives are the deferred releases of goroutines that hold
\* a slot.
CanAcquire(held, cap) == held < cap

Goroutines == 1..Len(inputs)

\* The goroutines inside probeIP / collectFromDevice.
Probing == {i \in Goroutines : gpc[i] = "probing"}

FanInit ==
    /\ fpc = "idle"
    /\ fkind = "scan"
    /\ inputs = <<>>
    /\ maxConcurrent = 0
    /\ gpc = <<>>
    /\ outcome = <<>>
    /\ semaphore = 0
    /\ resultsChan = <<>>
    /\ chanClosed = FALSE
    /\ results = <<>>

\* The start of Scan / CollectData: the channels are made and one goroutine
\* per input is started; make panics on a negative capacity.
FanOut(kind, in, max) ==
    /\ fkind' = kind
    /\ inputs' = in
    /\ maxConcurrent' = max
    /\ semaphore' = 0
    /\ resultsChan' = <<>>
    /\ chanClosed' = FALSE
    /\ results' = <<>>
    /\ IF max < 0
       THEN /\ fpc' = "panicked"
            /\ gpc' = <<>>
            /\ outcome' = <<>>
       ELSE /\ fpc' = "receiving"
            /\ gpc' = [i \in 1..Len(in) |-> "acquire"]
            /\ outcome' = [i \in 1..Len(in) |-> "none"]

\* discoveryScanner.Scan(ctx, ips)
Scan(ips, max) ==
    /\ UNCHANGED nonFanVars
    /\ fpc \in {"idle", "returned", "panicked", "fatal"}
    /\ FanOut("scan", ips, max)

\* main: no device found ends the run (log.Fatalf).
NoDevicesFatal ==
    /\ UNCHANGED nonFanVars
    /\ fpc = "returned"
    /\ fkind = "scan"
    /\ Len(results) = 0
    /\ fpc' = "fatal"
    /\ UNCHANGED <<fkind, inputs, maxConcurrent, gpc, outcome, semaphore,
                   resultsChan, chanClosed, results>>

\* processPrinters: dataCollector.CollectData(ctx, deviceInfos) on the
\* devices Scan returned, with the same max_concurrent.
CollectData ==
    /\ UNCHANGED nonFanVars
    /\ fpc = "returned"
    /\ fkind = "scan"
    /\ Len(results) > 0
    /\ FanOut("collect", [i \in 1..Len(results) |-> results[i].IP],
              maxConcurrent)

\* semaphore <- struct{}{} / dc.rateLimiter.Wait()
Acquire(i) ==
    /\ UNCHANGED nonFanVars
    /\ fpc = "receiving"
    /\ i \in Goroutines
    /\ gpc[i] = "acquire"
    /\ CanAcquire(semaphore, maxConcurrent)
    /\ semaphore' = semaphore + 1
    /\ gpc' = [gpc EXCEPT ![i] = "probing"]
    /\ UNCHANGED <<fpc, fkind, inputs, maxConcurrent, outcome, resultsChan,
                   chanClosed, results>>

\* result := ds.probeIP(ctx, targetIP) / dc.collectFromDevice(ctx, devInfo),
\* then resultsChan <- result (the buffer holds len(inputs) results, so the
\* send never blocks).
ProbeAndSend(i, out) ==
    /\ UNCHANGED nonFanVars
    /\ fpc = "receiving"
    /\ i \in Goroutines
    /\ gpc[i] = "probing"
    /\ out \in (IF fkind = "scan" THEN ProbeOutcomes ELSE CollectOutcomes)
    /\ outcome' = [outcome EXCEPT ![i] = out]
    /\ resultsChan' = Append(resultsChan,
                             IF fkind = "scan" THEN probeIP(inputs[i], out)
                             ELSE collectFromDevice(inputs[i], out))
    /\ gpc' = [gpc EXCEPT ![i] = "release"]
    /\ UNCHANGED <<fpc, fkind, inputs, maxConcurrent, semaphore, chanClosed,
                   results>>

\* The deferred calls of the goroutine: <-semaphore, then wg.Done().
Release(i) ==
    /\ UNCHANGED nonFanVars
    /\ fpc = "receiving"
    /\ i \in Goroutines
    /\ gpc[i] = "release"
    /\ semaphore' = semaphore - 1
    /\ gpc' = [gpc EXCEPT ![i] = "done"]
    /\ UNCHANGED <<fpc, fkind, inputs, maxConcurrent, outcome, resultsChan,
                   chanClosed, results>>

\* go func() { wg.Wait(); close(resultsChan) }()
CloseResults ==
    /\ UNCHANGED nonFanVars
    /\ fpc = "receiving"
    /\ ~chanClosed
    /\ \A i \in Goroutines : gpc[i] = "done"
    /\ chanClosed' = TRUE
    /\ UNCHANGED <<fpc, fkind, inputs, maxConcurrent, gpc, outcome, semaphore,
                   resultsChan, results>>

\* for result := range resultsChan { ... append ... }
ReceiveResult ==
    /\ UNCHANGED nonFanVars
    /\ fpc = "receiving"
    /\ Len(resultsChan) > 0
    /\ resultsChan' = Tail(resultsChan)
    /\ results' = IF KeepResult(fkind, Head(resultsChan))
                  THEN Append(results, Head(resultsChan))
                  ELSE results
    /\ UNCHANGED <<fpc, fkind, inputs, maxConcurrent, gpc, outcome, semaphore,
                   chanClosed>>

\* The range loop ends on the closed, drained channel: return results, nil.
FanReturn ==
    /\ UNCHANGED nonFanVars
    /\ fpc = "receiving"
    /\ chanClosed
    /\ Len(resultsChan) = 0
    /\ fpc' = "returned"
    /\ UNCHANGED <<fkind, inputs, maxConcurrent, gpc, outcome, semaphore,
                   resultsChan, chanClosed, results>>

FanNext ==
    \/ \E ips \in IPLists, max \in MaxConcurrents : Scan(ips, max)
    \/ NoDevicesFatal
    \/ CollectData
    \/ \E i \in 1..MaxInputs : Acquire(i)
    \/ \E i \in 1..MaxInputs, out \in ProbeOutcomes \cup CollectOutcomes :
          ProbeAndSend(i, out)
    \/ \E i \in 1..MaxInputs : Release(i)
    \/ CloseResults
    \/ ReceiveResult
    \/ FanReturn

(***************************************************************************)
(* The identity of a printer: collectNetworkInfo and Builder.buildPrinterID.*)
(* A string is a sequence of characters.                                   *)
(***************************************************************************)
\* Polls of one device that are compared.
MaxPolls == 2

UpperChars == <<"A", "B", "C", "D", "E", "F", "G", "H", "I", "J", "K", "L", "M",
                "N", "O", "P", "Q", "R", "S", "T", "U", "V", "W", "X", "Y", "Z">>
LowerChars == <<"a", "b", "c", "d", "e", "f", "g", "h", "i", "j", "k", "l", "m",
                "n", "o", "p", "q", "r", "s", "t", "u", "v", "w", "x", "y", "z">>

\* strings.ToLower
ToLower(str) ==
    [k \in 1..Len(str) |->
        IF \E i \in 1..Len(UpperChars) : UpperChars[i] = str[k]
        THEN LowerChars[CHOOSE i \in 1..Len(UpperChars) : UpperChars[i] = str[k]]
        ELSE str[k]]

\* strings.ReplaceAll(str, old, "") for a one-character old.
RECURSIVE ReplaceAll(_, _)
ReplaceAll(str, old) ==
    IF str = <<>> THEN <<>>
    ELSE IF Head(str) = old THEN ReplaceAll(Tail(str), old)
    ELSE <<Head(str)>> \o ReplaceAll(Tail(str), old)

\* strings.TrimSpace
RECURSIVE TrimSpace(_)
TrimSpace(str) ==
    IF str = <<>> THEN <<>>
    ELSE IF Head(str) = " " THEN TrimSpace(Tail(str))
    ELSE IF str[Len(str)] = " " THEN TrimSpace(SubSeq(str, 1, Len(str) - 1))
    ELSE str

\* strings.Contains
Contains(str, substr) ==
    \E i \in 0..(Len(str) - Len(substr)) :
        SubSeq(str, i + 1, i + Len(substr)) = substr

\* The values a device answers for ifPhysAddress.1 and ifPhysAddress.2, as
\* the strings the SNMP client returns: "" (no value), "AA:BB:CC:DD:EE:01",
\* "aa:bb:cc:dd:ee:02", "AA-BB-CC-DD-EE-01", "AA:BB:CC", "not-available".
MacValues ==
    {<<>>,
     <<"A", "A", ":", "B", "B", ":", "C", "C", ":", "D", "D", ":", "E", "E", ":", "0", "1">>,
     <<"a", "a", ":", "b", "b", ":", "c", "c", ":", "d", "d", ":", "e", "e", ":", "0", "2">>,
     <<"A", "A", "-", "B", "B", "-", "C", "C", "-", "D", "D", "-", "E", "E", "-", "0", "1">>,
     <<"A", "A", ":", "B", "B", ":", "C", "C">>,
     <<"n", "o", "t", "-", "a", "v", "a", "i", "l", "a", "b", "l", "e">>}

\* The values of Identification["serial_number"]: "" (no value), " SN123 ",
\* "   ", "Xerox", "CNHP01".
SerialValues ==
    {<<>>,
     <<" ", "S", "N", "1", "2", "3", " ">>,
     <<" ", " ", " ">>,
     <<"X", "e", "r", "o", "x">>,
     <<"C", "N", "H", "P", "0", "1">>}

\* What a device answers, identically at every poll.
Devices == [mac1 : MacValues, mac2 : MacValues, serial_number : SerialValues,
            IP : IPs]

\* The patterns of isBrandName.
brandPatterns ==
    {<<"s", "a", "m", "s", "u", "n", "g">>,
     <<"x", "e", "r", "o", "x">>,
     <<"h", "p">>,
     <<"h", "e", "w", "l", "e", "t", "t">>,
     <<"c", "a", "n", "o", "n">>,
     <<"r", "i", "c", "o", "h">>,
     <<"k", "o", "n", "i", "c", "a">>,
     <<"m", "i", "n", "o", "l", "t", "a">>,
     <<"k", "y", "o", "c", "e", "r", "a">>,
     <<"p", "a", "n", "a", "s", "o", "n", "i", "c">>,
     <<"e", "l", "e", "c", "t", "r", "o", "n", "i", "c", "s">>,
     <<"c", "o", "r", "p", "o", "r", "a", "t", "i", "o", "n">>,
     <<"c", "o", "m", "p", "a", "n", "y">>,
     <<"i", "n", "c", ".">>,
     <<"l", "i", "m", "i", "t", "e", "d">>}

\* Builder.isBrandName
isBrandName(str) ==
    \E pattern \in brandPatterns : Contains(ToLower(TrimSpace(str)), pattern)

\* The orders in which "for oid, val := range results" can visit the two
\* ifPhysAddress entries of the map GetMultiple returned.
MapOrders == {<<"mac1", "mac2">>, <<"mac2", "mac1">>}

\* collectNetworkInfo: NetworkInfo["macAddress"] is the first non-empty
\* ifPhysAddress value in the order of the iteration ("" when there is none).
collectNetworkInfo(dev, order) ==
    IF dev[order[1]] # <<>> THEN dev[order[1]] ELSE dev[order[2]]

\* Builder.extractSerialNumber on Identification["serial_number"].
extractSerialNumber(serial) ==
    IF serial # <<>> /\ ~isBrandName(TrimSpace(serial))
    THEN TrimSpace(serial)
    ELSE <<>>

\* The string form of an IP of the model.
IPString(ip) == <<ip>>

\* Builder.buildPrinterID: the MAC without ":" and lower-cased when that has
\* at least 12 characters, else the serial, else the IP.
buildPrinterID(macAddress, serial_number, ip) ==
    IF macAddress # <<>> /\ Len(ToLower(ReplaceAll(macAddress, ":"))) >= 12
    THEN ToLower(ReplaceAll(macAddress, ":"))
    ELSE IF TrimSpace(extractSerialNumber(serial_number)) # <<>>
    THEN ToLower(TrimSpace(extractSerialNumber(serial_number)))
    ELSE IPString(ip)

NoDevice == [mac1 |-> <<>>, mac2 |-> <<>>, serial_number |-> <<>>,
             IP |-> CHOOSE ip \in IPs : TRUE]

IDInit ==
    /\ device = NoDevice
    /\ printerIDs = <<>>

\* Another device is polled from now on.
NewDevice(dev) ==
    /\ UNCHANGED nonIDVars
    /\ device' = dev
    /\ printerIDs' = <<>>

\* One poll of the device: collectNetworkInfo, then Build sets printer.id and
\* printer.mac_address of the event.
PollDevice(order) ==
    /\ UNCHANGED nonIDVars
    /\ Len(printerIDs) < MaxPolls
    /\ LET macAddress == collectNetworkInfo(device, order)
       IN printerIDs' = Append(printerIDs,
              [id |-> buildPrinterID(macAddress, device.serial_number, device.IP),
               macAddress |-> macAddress])
    /\ UNCHANGED device

IDNext ==
    \/ \E dev \in Devices : NewDevice(dev)
    \/ \E order \in MapOrders : PollDevice(order)

(***************************************************************************)
(* collectCounters and the absolute counters of the event.  The values go  *)
(* beyond 2^31, so an int64 v is written Num(g, r) with v = g * 10^9 + r   *)
(* (g and r of the sign of v, |r| < 10^9), ordered as the integers are.    *)
(***************************************************************************)
\* Most values a device returns to one WALK or one GET of the model.
MaxReadings == 2

Num(g, r) == [g |-> g, r |-> r]

\* a < b and a <= b on int64 values.
LT(a, b) == a.g < b.g \/ (a.g = b.g /\ a.r < b.r)
LE(a, b) == a = b \/ LT(a, b)

Zero == Num(0, 0)

\* 3_000_000_000, the limit above which a counter is dropped.
CounterLimit == Num(3, 0)

\* No entry for the key in a counters map.
NoEntry == Num(-9, 0)

\* The values of the model: -1, 0, 4180, 2147483647, 3000000000, 3000000001.
Readings == {Num(0, -1), Zero, Num(0, 4180), Num(2, 147483647),
             Num(3, 0), Num(3, 1)}

ReadingLists == UNION {[1..n -> Readings] : n \in 0..MaxReadings}

\* The table of isSuspiciousValue.
suspiciousValues ==
    {Num(2, 147483647), Num(4, 294967295), Num(9, 223372036),
     Num(0, 268435456), Num(0, 536870912), Num(1, 73741824),
     Num(0, 2097151), Num(0, 4194303), Num(0, 8388607), Num(0, 16777215),
     Num(0, 33554431), Num(0, 27327487), Num(0, 18935871), Num(0, 2002943)}

\* The powers of two from 2^10 to 2^32: the values with
\* val > 1000 && val&(val-1) == 0 within the range of the model.
PowersOfTwo ==
    {Num(0, 1024), Num(0, 2048), Num(0, 4096), Num(0, 8192), Num(0, 16384),
     Num(0, 32768), Num(0, 65536), Num(0, 131072), Num(0, 262144),
     Num(0, 524288), Num(0, 1048576), Num(0, 2097152), Num(0, 4194304),
     Num(0, 8388608), Num(0, 16777216), Num(0, 33554432), Num(0, 67108864),
     Num(0, 134217728), Num(0, 268435456), Num(0, 536870912),
     Num(1, 73741824), Num(2, 147483648), Num(4, 294967296)}

\* isSuspiciousValue
isSuspiciousValue(val) == val \in suspiciousValues \/ val \in PowersOfTwo

\* A plausible slip: the upper limit is not applied.
KeepCounterNoLimit(parsed) == LT(Zero, parsed)

\* parsed > 0 && parsed <= 3_000_000_000
KeepCounter(parsed) == LT(Zero, parsed) /\ LE(parsed, CounterLimit)

counterNames == <<"total_pages", "mono_pages", "color_pages",
                  "scan_pages", "copy_pages", "fax_pages">>

EmptyCounters == [f \in Fields |-> NoEntry]

\* The number of vendor OIDs collectCountersVendorSpecific asks for.
VendorOIDCount(brand) ==
    CASE brand = "Samsung" -> 4
      [] brand = "HP" -> 3
      [] brand = "Xerox" -> 6
      [] OTHER -> 0

Brands == {"HP", "Other"}

\* What a device answers during one poll: the values of the WALK of the
\* counter tree, whether its profile lists counter OIDs, its brand, the
\* values of the GET of the profile or vendor OIDs, in the order of the OIDs,
\* and the life page count the device holds.
DeviceReadings ==
    [walk : ReadingLists, profile : BOOLEAN, brand : Brands,
     get : ReadingLists, page_count : {Zero, Num(0, 4180)}]

\* collectStatus: the Status map holds state, device_status, printer_status,
\* error_status and the uptime; no page_count entry is ever stored.
collectStatus(dev) == [page_count |-> NoEntry]

\* getPageCountFromStatus: 0 when the key is absent.
getPageCountFromStatus(status) ==
    IF status.page_count = NoEntry THEN Zero ELSE status.page_count

\* The values of the WALK that collectCounters keeps in allCounters.
AllCounters(walk) == {walk[i] : i \in {k \in DOMAIN walk : KeepCounter(walk[k])}}

\* The largest value of a non-empty set.
MaxOf(S) == CHOOSE v \in S : \A w \in S : LE(w, v)

\* mapCountersFromWalk: the largest value is total_pages, the second largest
\* color_pages.
mapCountersFromWalk(allCounters) ==
    IF allCounters = {} THEN EmptyCounters
    ELSE LET maxVal == MaxOf(allCounters)
             others == allCounters \ {maxVal}
         IN [f \in Fields |->
                IF f = "total_pages" THEN maxVal
                ELSE IF f = "color_pages" /\ others # {} THEN MaxOf(others)
                ELSE NoEntry]

\* The exchange sort of collectCountersFromProfile and
\* collectCountersVendorSpecific, by value descending.
Swap(seq, i, j) == [seq EXCEPT ![i] = seq[j], ![j] = seq[i]]

RECURSIVE SortInner(_, _, _)
SortInner(seq, i, j) ==
    IF j > Len(seq) THEN seq
    ELSE SortInner(IF LT(seq[i].value, seq[j].value) THEN Swap(seq, i, j)
                   ELSE seq, i, j + 1)

RECURSIVE SortOuter(_, _)
SortOuter(seq, i) ==
    IF i > Len(seq) THEN seq ELSE SortOuter(SortInner(seq, i, i + 1), i + 1)

\* The test a value of a GET has to pass: in range, and for the OIDs of a
\* profile also not suspicious.
KeepValue(path, v) ==
    KeepCounter(v) /\ (path = "profile" => ~isSuspiciousValue(v))

\* generateCounterMappings for a profile that lists the standard counter
\* OIDs 1.3.6.1.2.1.43.10.2.1.4.1.k in order: the k-th OID is mapped to the
\* k-th name.
generateCounterMappings == [k \in 1..6 |-> counterNames[k]]

\* The entries of the answers, with the name of their position, that pass
\* the test of the path; at most limit of them are looked at.
RECURSIVE ValidValues(_, _, _, _)
ValidValues(get, limit, k, path) ==
    IF k > Len(get) \/ k > limit THEN <<>>
    ELSE (IF KeepValue(path, get[k])
          THEN <<[name |-> counterNames[k], value |-> get[k]]>>
          ELSE <<>>) \o ValidValues(get, limit, k + 1, path)

\* collectCountersFromProfile: the kept values that are not suspicious, in
\* descending order, are given the six names in order.
collectCountersFromProfile(normalized, get) ==
    LET allValues == SortOuter(ValidValues(get, Len(get), 1, "profile"), 1)
    IN [f \in Fields |->
           IF \E i \in 1..Len(allValues) : i <= 6 /\ counterNames[i] = f
           THEN allValues[CHOOSE i \in 1..Len(allValues) : counterNames[i] = f].value
           ELSE normalized[f]]

\* The names the sorted vendor values are stored under: the first is
\* total_pages, the second color_pages, the others keep their own name.
VendorName(sorted, i) ==
    IF i = 1 THEN "total_pages"
    ELSE IF i = 2 THEN "color_pages"
    ELSE sorted[i].name

\* collectCountersVendorSpecific: later assignments overwrite earlier ones.
collectCountersVendorSpecific(normalized, brand, get) ==
    LET validValues ==
            SortOuter(ValidValues(get, VendorOIDCount(brand), 1, "vendor"), 1)
    IN [f \in Fields |->
           IF \E i \in 1..Len(validValues) : VendorName(validValues, i) = f
           THEN LET last == CHOOSE i \in 1..Len(validValues) :
                               /\ VendorName(validValues, i) = f
                               /\ \A j \in 1..Len(validValues) :
                                     VendorName(validValues, j) = f => j <= i
                IN validValues[last].value
           ELSE normalized[f]]

\* len(data.NormalizedCounters) == 0 as far as the six names go.
NoCounters(normalized) == \A f \in Fields : normalized[f] = NoEntry

\* collectCounters up to the vendor-specific step: the WALK, then the
\* profile or the mapping of the WALK, then the vendor OIDs when total_pages
\* is still missing.
CountersFromOIDs(dev) ==
    LET mapped == IF dev.profile
                  THEN collectCountersFromProfile(EmptyCounters, dev.get)
                  ELSE mapCountersFromWalk(AllCounters(dev.walk))
    IN IF NoCounters(mapped) \/ mapped["total_pages"] = NoEntry
       THEN collectCountersVendorSpecific(mapped, dev.brand, dev.get)
       ELSE mapped

\* The last step of collectCounters: page_count replaces a total_pages that
\* is missing or suspicious, when page_count > 0.
pageCountFallback(normalized, pageCount) ==
    IF (normalized["total_pages"] = NoEntry
            \/ isSuspiciousValue(normalized["total_pages"]))
       /\ LT(Zero, pageCount)
    THEN [normalized EXCEPT !["total_pages"] = pageCount]
    ELSE normalized

\* collectCounters: NormalizedCounters, and whether data.Counters got an
\* entry from the WALK.
collectCounters(dev) ==
    [NormalizedCounters |->
         pageCountFallback(CountersFromOIDs(dev),
                           getPageCountFromStatus(collectStatus(dev))),
     hasRawCounters |-> AllCounters(dev.walk) # {}]

\* discoverAdditionalData: the WALK of the counter tree is repeated and every
\* value other than "", "0" and a negative one is stored in data.Counters.
discoverAdditionalData(data, dev) ==
    [data EXCEPT !.hasRawCounters =
        data.hasRawCounters \/ \E i \in DOMAIN dev.walk : LT(Zero, dev.walk[i])]

NoCollected == [NormalizedCounters |-> EmptyCounters, hasRawCounters |-> FALSE]

NoAbsolute == [present |-> FALSE, absolute |-> [f \in Fields |-> Zero]]

\* Builder.buildCounters, the absolute part: nil when both maps are empty;
\* a name without an entry reads 0 (data.Counters holds no entry under the
\* six names).
buildAbsolute(data) ==
    IF NoCounters(data.NormalizedCounters) /\ ~data.hasRawCounters
    THEN NoAbsolute
    ELSE [present |-> TRUE,
          absolute |-> [f \in Fields |->
              IF data.NormalizedCounters[f] = NoEntry THEN Zero
              ELSE data.NormalizedCounters[f]]]

NoReadings == [walk |-> <<>>, profile |-> FALSE, brand |-> "Other",
               get |-> <<>>, page_count |-> Zero]

CountersInit ==
    /\ cpc = "idle"
    /\ readings = NoReadings
    /\ collected = NoCollected
    /\ snapshot = NoAbsolute

\* collectFromDevice: collectStatus, collectCounters and
\* discoverAdditionalData, for a device that answers dev.
CollectCountersStep(dev) ==
    /\ UNCHANGED nonCounterVars
    /\ cpc = "idle"
    /\ readings' = dev
    /\ collected' = discoverAdditionalData(collectCounters(dev), dev)
    /\ snapshot' = NoAbsolute
    /\ cpc' = "collected"

\* Build: counters := b.buildCounters(data, delta, resetDetected); the event
\* goes to the queue.
BuildCountersStep ==
    /\ UNCHANGED nonCounterVars
    /\ cpc = "collected"
    /\ snapshot' = buildAbsolute(collected)
    /\ cpc' = "emitted"
    /\ UNCHANGED <<readings, collected>>

\* The next poll.
NextPoll ==
    /\ UNCHANGED nonCounterVars
    /\ cpc = "emitted"
    /\ cpc' = "idle"
    /\ readings' = NoReadings
    /\ collected' = NoCollected
    /\ snapshot' = NoAbsolute

CountersNext ==
    \/ \E dev \in (IF cpc = "idle" THEN DeviceReadings ELSE {}) :
          CollectCountersStep(dev)
    \/ BuildCountersStep
    \/ NextPoll

(***************************************************************************)
(* The specifications.                                                     *)
(***************************************************************************)
(***************************************************************************)
(* Supplies and alerts: collectConsumiblesViaWalk, Builder.buildSupplies   *)
(* and Builder.buildAlerts.                                                *)
(***************************************************************************)
\* Rows of the device's prtMarkerSuppliesTable.
MaxSupplies == 2

\* strings.ToUpper
ToUpper(str) ==
    [k \in 1..Len(str) |->
        IF \E i \in 1..Len(LowerChars) : LowerChars[i] = str[k]
        THEN UpperChars[CHOOSE i \in 1..Len(LowerChars) : LowerChars[i] = str[k]]
        ELSE str[k]]

\* strings.Index: the position (from 0) of the first occurrence, or -1.
Index(str, substr) ==
    IF Contains(str, substr)
    THEN CHOOSE i \in 0..(Len(str) - Len(substr)) :
            /\ SubSeq(str, i + 1, i + Len(substr)) = substr
            /\ \A j \in 0..(i - 1) : SubSeq(str, j + 1, j + Len(substr)) # substr
    ELSE -1

\* strings.Join(strings.Fields(name), " "): runs of spaces become one space.
RECURSIVE JoinFields(_)
JoinFields(str) ==
    IF Len(str) < 2 THEN TrimSpace(str)
    ELSE IF str[1] = " " /\ str[2] = " " THEN JoinFields(Tail(str))
    ELSE <<Head(str)>> \o JoinFields(Tail(str))

DigitChars == <<"0", "1", "2", "3", "4", "5", "6", "7", "8", "9">>

IsDigit(c) == \E i \in 1..Len(DigitChars) : DigitChars[i] = c

DigitValue(c) == (CHOOSE i \in 1..Len(DigitChars) : DigitChars[i] = c) - 1

RECURSIVE ScanDigits(_, _)
ScanDigits(str, acc) ==
    IF str = <<>> \/ ~IsDigit(Head(str)) THEN acc
    ELSE ScanDigits(Tail(str), acc * 10 + DigitValue(Head(str)))

\* fmt.Sscanf(strVal, "%d", &intResult): an optional sign and the leading
\* digits; an error when no digit follows.
Sscanf(strVal) ==
    LET signed == strVal # <<>> /\ Head(strVal) \in {"-", "+"}
        digits == IF signed THEN Tail(strVal) ELSE strVal
        n      == ScanDigits(digits, 0)
    IN  [err   |-> digits = <<>> \/ ~IsDigit(Head(digits)),
         value |-> IF signed /\ Head(strVal) = "-" THEN 0 - n ELSE n]

\* The descriptions (prtMarkerSuppliesDesc) of the rows of a device.
SupplyDescriptions ==
    {<<"B", "l", "a", "c", "k", " ", "T", "o", "n", "e", "r", " ", "C", "a", "r", "t", "r", "i", "d", "g", "e">>,
     <<"F", "u", "s", "e", "r", " ", "S", "/", "N", ":", "A", "1">>}

\* The values of prtMarkerSuppliesLevel and prtMarkerSuppliesMaxCapacity of
\* a row, as the strings of the WALK: "" (no value for the row's index),
\* "-3", "0", "5", "20", "100", "150".
RawValues ==
    {<<>>, <<"-", "3">>, <<"0">>, <<"5">>, <<"2", "0">>, <<"1", "0", "0">>, <<"1", "5", "0">>}

SupplyRows == [description : SupplyDescriptions, level : RawValues, max : RawValues]

SupplyTables == UNION {[1..n -> SupplyRows] : n \in 0..MaxSupplies}

\* consumibleMapping of collectConsumiblesViaWalk
consumibleMapping ==
    {[desc |-> <<"b", "l", "a", "c", "k", " ", "t", "o", "n", "e", "r">>, key |-> "tonerBlack"],
     [desc |-> <<"b", "l", "a", "c", "k", " ", "i", "n", "k">>, key |-> "tonerBlack"],
     [desc |-> <<"c", "y", "a", "n", " ", "t", "o", "n", "e", "r">>, key |-> "tonerCyan"],
     [desc |-> <<"c", "y", "a", "n", " ", "i", "n", "k">>, key |-> "tonerCyan"],
     [desc |-> <<"m", "a", "g", "e", "n", "t", "a", " ", "t", "o", "n", "e", "r">>, key |-> "tonerMagenta"],
     [desc |-> <<"m", "a", "g", "e", "n", "t", "a", " ", "i", "n", "k">>, key |-> "tonerMagenta"],
     [desc |-> <<"y", "e", "l", "l", "o", "w", " ", "t", "o", "n", "e", "r">>, key |-> "tonerYellow"],
     [desc |-> <<"y", "e", "l", "l", "o", "w", " ", "i", "n", "k">>, key |-> "tonerYellow"],
     [desc |-> <<"b", "l", "a", "c", "k", " ", "d", "r", "u", "m">>, key |-> "drumBlack"],
     [desc |-> <<"c", "y", "a", "n", " ", "d", "r", "u", "m">>, key |-> "drumCyan"],
     [desc |-> <<"m", "a", "g", "e", "n", "t", "a", " ", "d", "r", "u", "m">>, key |-> "drumMagenta"],
     [desc |-> <<"y", "e", "l", "l", "o", "w", " ", "d", "r", "u", "m">>, key |-> "drumYellow"],
     [desc |-> <<"f", "u", "s", "e", "r">>, key |-> "fusor"],
     [desc |-> <<"t", "r", "a", "n", "s", "f", "e", "r", " ", "r", "o", "l", "l", "e", "r">>, key |-> "transferRoller"],
     [desc |-> <<"w", "a", "s", "t", "e">>, key |-> "cajaResiduos"],
     [desc |-> <<"d", "r", "u", "m">>, key |-> "drum"]}

\* The normalizedKey of a description: the key of the first entry of
\* consumibleMapping, in the order of the map iteration, that the
\* description contains.
normalizedKeys(description) ==
    {m.key : m \in {e \in consumibleMapping :
                        Contains(ToLower(description), ToLower(e.desc))}}

\* normalizedKeys of each description of SupplyDescriptions.
keysOf == [d \in SupplyDescriptions |-> normalizedKeys(d)]

\* The outcomes of the map iterations for the rows of a table; "" for a row
\* whose description matches no entry.
KeyChoices(table) ==
    {f \in [DOMAIN table ->
                {""} \cup UNION {keysOf[table[i].description] : i \in DOMAIN table}] :
        \A i \in DOMAIN table :
            IF keysOf[table[i].description] = {}
            THEN f[i] = ""
            ELSE f[i] \in keysOf[table[i].description]}

\* collectConsumiblesViaWalk: one entry per normalized key, of the last row
\* that has the key.
collectConsumiblesViaWalk(table, keys) ==
    [k \in {keys[i] : i \in {j \in DOMAIN table :
                                table[j].description # <<>> /\ keys[j] # ""}} |->
        LET last == CHOOSE i \in DOMAIN table :
                        /\ keys[i] = k
                        /\ \A j \in DOMAIN table : keys[j] = k => j <= i
        IN  [description |-> table[last].description,
             level       |-> table[last].level,
             max         |-> table[last].max]]

\* Builder.extractFieldAsString, for a supply whose fields are strings.
RECURSIVE extractFieldAsString(_, _)
extractFieldAsString(supply, keys) ==
    IF keys = <<>> THEN <<>>
    ELSE IF Head(keys) \in DOMAIN supply /\ supply[Head(keys)] # <<>>
    THEN supply[Head(keys)]
    ELSE extractFieldAsString(supply, Tail(keys))

\* Builder.extractFieldAsInt, for a supply whose fields are strings. The
\* values of RawValues on which "%d" fails are not read by "%f" either.
RECURSIVE extractFieldAsInt(_, _)
extractFieldAsInt(supply, keys) ==
    IF keys = <<>> THEN 0
    ELSE IF /\ Head(keys) \in DOMAIN supply
            /\ supply[Head(keys)] # <<>>
            /\ ~Sscanf(supply[Head(keys)]).err
    THEN Sscanf(supply[Head(keys)]).value
    ELSE extractFieldAsInt(supply, Tail(keys))

\* Builder.deduceSupplyStatus
deduceSupplyStatus(percentage) ==
    IF percentage <= 10 THEN "critical"
    ELSE IF percentage <= 25 THEN "low"
    ELSE IF percentage <= 75 THEN "ok"
    ELSE "good"

\* Builder.extractSupplyStatus
extractSupplyStatus(supply) ==
    IF "status" \in DOMAIN supply /\ supply.status \notin {<<>>, <<"u", "n", "k", "n", "o", "w", "n">>}
    THEN supply.status
    ELSE LET percentage == extractFieldAsInt(supply, <<"percentage", "percent">>)
             level      == extractFieldAsInt(supply, <<"level", "current">>)
             maxLevel   == extractFieldAsInt(supply, <<"maxLevel", "max">>)
         IN  deduceSupplyStatus(
                 IF percentage = 0 /\ maxLevel > 0 /\ level > 0
                 THEN (level * 100) \div maxLevel
                 ELSE percentage)

\* name[:idx] trimmed, when the name holds the separator.
CutAt(name, folded, sep) ==
    IF Index(folded, sep) # -1
    THEN TrimSpace(SubSeq(name, 1, Index(folded, sep)))
    ELSE name

\* The separators of step 3 of cleanSupplyName, in lower case.
nameSeparators ==
    <<<<"s", "e", "r", "i", "a", "l">>,
      <<"p", "a", "r", "t", " ", "n", "u", "m", "b", "e", "r">>,
      <<"p", "n", " ">>,
      <<"p", "n", ":">>,
      <<"p", "n", "=">>,
      <<"p", "/", "n", ":">>,
      <<"p", "/", "n", " ">>,
      <<"m", "o", "d", "e", "l", ":">>,
      <<"v", "e", "r", "s", "i", "o", "n", ":">>>>

\* Step 3 of cleanSupplyName: the name is cut at the first separator of the
\* list that it holds.
RECURSIVE CutAtFirst(_, _)
CutAtFirst(name, seps) ==
    IF seps = <<>> THEN name
    ELSE IF Index(ToLower(name), Head(seps)) # -1
    THEN CutAt(name, ToLower(name), Head(seps))
    ELSE CutAtFirst(name, Tail(seps))

\* Builder.cleanSupplyName
cleanSupplyName(name) ==
    LET n1 == TrimSpace(name)
        n2 == CutAt(n1, ToUpper(n1), <<";", "S", "N">>)
        n3 == CutAt(n2, ToUpper(n2), <<"S", "/", "N", ":">>)
        n4 == CutAtFirst(n3, nameSeparators)
        n5 == TrimSpace(n4)
        n6 == IF n5 # <<>> /\ n5[Len(n5)] = ","
              THEN SubSeq(n5, 1, Len(n5) - 1) ELSE n5
        n7 == JoinFields(TrimSpace(n6))
    IN  IF n1 = <<>> \/ Len(n7) < 3 THEN <<>> ELSE n7

\* The words that make buildSupplies keep a supply without data.
infoWords ==
    {<<"s", "/", "n", ":">>,
     <<"s", "e", "r", "i", "a", "l">>,
     <<"p", "a", "r", "t">>,
     <<"m", "o", "d", "e", "l">>,
     <<"f", "i", "r", "m", "w", "a", "r", "e">>,
     <<"v", "e", "r", "s", "i", "o", "n">>}

\* The SupplyInfo of one supply, in a sequence; empty when buildSupplies
\* skips the supply.
buildSupply(supply) ==
    LET name       == extractFieldAsString(supply, <<"name", "description">>)
        level      == extractFieldAsInt(supply, <<"level", "current">>)
        maxLevel   == extractFieldAsInt(supply, <<"maxLevel", "max">>)
        percentage == extractFieldAsInt(supply, <<"percentage", "percent">>)
        trimmed    == TrimSpace(name)
        hasInfo    == \/ \E w \in infoWords : Contains(ToLower(trimmed), w)
                      \/ Len(trimmed) > 50
        cleanName  == cleanSupplyName(trimmed)
        calculatedPercentage ==
            IF percentage = 0 /\ maxLevel > 0 /\ level > 0
            THEN (level * 100) \div maxLevel
            ELSE percentage
    IN  IF name = <<>> \/ name = <<"u", "n", "k", "n", "o", "w", "n">> THEN <<>>
        ELSE IF trimmed = <<>> THEN <<>>
        ELSE IF level = 0 /\ maxLevel = 0 /\ percentage = 0 /\ ~hasInfo THEN <<>>
        ELSE IF cleanName = <<>> THEN <<>>
        ELSE <<[Name       |-> cleanName,
                Level      |-> level,
                MaxLevel   |-> maxLevel,
                Percentage |-> calculatedPercentage,
                Status     |-> deduceSupplyStatus(calculatedPercentage)]>>

\* buildSupply of each entry collectConsumiblesViaWalk can store.
supplyInfoOf == [supply \in SupplyRows |-> buildSupply(supply)]

\* Builder.buildSupplies: the supplies of data.Supplies in the order of the
\* map iteration. The empty sequence stands for the nil the code returns.
RECURSIVE buildSupplies(_, _)
buildSupplies(supplies, order) ==
    IF order = <<>> THEN <<>>
    ELSE supplyInfoOf[supplies[Head(order)]] \o buildSupplies(supplies, Tail(order))

\* The AlertInfo of one supply, in a sequence; empty when buildAlerts makes
\* no alert for the supply. Message holds the arguments of its format.
buildAlert(supply) ==
    LET status == extractSupplyStatus(supply)
    IN  IF status \in {"critical", "low"}
        THEN <<[Type     |-> "supply",
                Severity |-> IF status = "critical" THEN "critical" ELSE "warning",
                Message  |-> [supplyName |-> extractFieldAsString(supply, <<"name", "description">>),
                              status     |-> status,
                              percentage |-> extractFieldAsInt(supply, <<"percentage", "percent">>)]]>>
        ELSE <<>>

\* buildAlert of each entry collectConsumiblesViaWalk can store.
alertOf == [supply \in SupplyRows |-> buildAlert(supply)]

\* Builder.buildAlerts, in the order of its map iteration.
RECURSIVE buildAlerts(_, _)
buildAlerts(supplies, order) ==
    IF order = <<>> THEN <<>>
    ELSE alertOf[supplies[Head(order)]] \o buildAlerts(supplies, Tail(order))

\* cleanSupplyName of each description of SupplyDescriptions.
cleanNameOf == [d \in SupplyDescriptions |-> cleanSupplyName(d)]

\* The orders in which a range statement visits the keys of a map.
RangeOrders(m) ==
    {o \in [1..Cardinality(DOMAIN m) -> DOMAIN m] :
        \A i, j \in DOMAIN o : i # j => o[i] # o[j]}

NoSupplies == [k \in {} |-> <<>>]

SuppliesInit ==
    /\ spc = "idle"
    /\ supplyTable = <<>>
    /\ dataSupplies = NoSupplies
    /\ eventSupplies = <<>>
    /\ eventAlerts = <<>>

\* collectFromDevice, step 4: the consumables of the WALK are stored in
\* data.Supplies of a new PrinterData.
CollectSuppliesStep(table) ==
    /\ spc = "idle"
    /\ \E keys \in KeyChoices(table) :
          dataSupplies' = collectConsumiblesViaWalk(table, keys)
    /\ supplyTable' = table
    /\ spc' = "collected"
    /\ UNCHANGED <<eventSupplies, eventAlerts, nonSupplyVars>>

\* Builder.Build: buildSupplies, then buildAlerts.
BuildSuppliesStep ==
    /\ spc = "collected"
    /\ \E o1 \in RangeOrders(dataSupplies), o2 \in RangeOrders(dataSupplies) :
          /\ eventSupplies' = buildSupplies(dataSupplies, o1)
          /\ eventAlerts' = buildAlerts(dataSupplies, o2)
    /\ spc' = "built"
    /\ UNCHANGED <<supplyTable, dataSupplies, nonSupplyVars>>

\* The next poll starts from a new PrinterData.
NextSupplyPoll ==
    /\ spc = "built"
    /\ spc' = "idle"
    /\ supplyTable' = <<>>
    /\ dataSupplies' = NoSupplies
    /\ eventSupplies' = <<>>
    /\ eventAlerts' = <<>>
    /\ UNCHANGED nonSupplyVars

SuppliesNext ==
    \/ \E table \in (IF spc = "idle" THEN SupplyTables ELSE {}) :
          CollectSuppliesStep(table)
    \/ BuildSuppliesStep
    \/ NextSupplyPoll

(***************************************************************************)
(* The sections of a PrinterData and its missing_sections:                 *)
(* DataCollector.collectFromDevice. A bucket is the set of its keys.       *)
(***************************************************************************)
\* What a device answers to the requests of one collection: the GET of the
\* identification OIDs (an error, no usable value, or values), the GET of
\* the status OIDs, the supplies tree (no row, rows whose description is in
\* no mapping, or mapped rows), the values of the counter tree and whether
\* the tree 43.13 holds a value.
SectionDevices ==
    [idGet        : {"error", "empty", "values"},
     statusGet    : {"error", "ok"},
     suppliesTree : {"none", "unmapped", "mapped"},
     countersTree : {<<>>} \cup {<<v>> : v \in Readings},
     statusTree   : BOOLEAN]

NewPrinterData ==
    [Identification |-> {}, Status |-> {}, Supplies |-> {}, Counters |-> {},
     MissingSections |-> <<>>]

\* collectIdentification, as far as the bucket and missing_sections go.
identificationSection(data, dev) ==
    IF dev.idGet = "error" THEN data
    ELSE LET bucket == IF dev.idGet = "values" THEN {"sysDescr"} ELSE {}
         IN  [data EXCEPT
                !.Identification = bucket,
                !.MissingSections =
                    IF bucket = {} THEN Append(@, "identification") ELSE @]

\* collectStatus: after a GET without error the bucket holds a state.
statusSection(data, dev) ==
    IF dev.statusGet = "error" THEN data
    ELSE [data EXCEPT !.Status = {"state"}]

\* collectFromDevice, step 4: the consumables of collectConsumiblesViaWalk.
suppliesSection(data, dev) ==
    [data EXCEPT !.Supplies =
        IF dev.suppliesTree = "mapped" THEN {"tonerBlack"} ELSE {}]

\* collectCounters: the values of the WALK that pass the range filter are
\* stored under their OID; an empty bucket is reported at the end.
countersSection(data, dev) ==
    LET bucket == {"oid" : i \in {j \in DOMAIN dev.countersTree :
                                      KeepCounter(dev.countersTree[j])}}
    IN  [data EXCEPT
            !.Counters = bucket,
            !.MissingSections =
                IF bucket = {} THEN Append(@, "counters") ELSE @]

\* The groups of discoverAdditionalData: the name that starts the key of
\* each value of the group, and whether the device has a value in the
\* group that is not "", "0" or negative.
sweepGroups(dev) ==
    <<[key |-> "counters_oid", name |-> <<"c", "o", "u", "n", "t", "e", "r", "s">>,
       found |-> \E i \in DOMAIN dev.countersTree : LT(Zero, dev.countersTree[i])],
      [key |-> "supplies_oid", name |-> <<"s", "u", "p", "p", "l", "i", "e", "s">>,
       found |-> dev.suppliesTree # "none"],
      [key |-> "status_oid", name |-> <<"s", "t", "a", "t", "u", "s">>,
       found |-> dev.statusTree]>>

\* The bucket discoverAdditionalData stores a key in.
sweepBucket(name) ==
    IF Contains(name, <<"c", "o", "u", "n", "t", "e", "r">>) \/ Contains(name, <<"p", "a", "g", "e">>) THEN "Counters"
    ELSE IF Contains(name, <<"s", "t", "a", "t", "u", "s">>) THEN "Status"
    ELSE IF Contains(name, <<"s", "u", "p", "p", "l", "y">>) \/ Contains(name, <<"c", "o", "n", "s", "u", "m", "a", "b", "l", "e">>)
            \/ Contains(name, <<"t", "o", "n", "e", "r">>) THEN "Supplies"
    ELSE "Identification"

\* discoverAdditionalData, for the groups from position k on.
RECURSIVE sweepSection(_, _, _)
sweepSection(data, dev, k) ==
    IF k > Len(sweepGroups(dev)) THEN data
    ELSE LET g == sweepGroups(dev)[k]
             b == sweepBucket(g.name)
         IN  sweepSection(
                 IF g.found THEN [data EXCEPT ![b] = @ \cup {g.key}] ELSE data,
                 dev, k + 1)

\* The keys of data.Supplies that extractPageCountersFromSupplies copies
\* into the counters.
rescueKeys ==
    {"xeroxSupplies_1_3_6_1_4_1_253_8_53_13_2_1_2_1_20_29",
     "xeroxSupplies_1_3_6_1_4_1_253_8_53_13_2_1_2_1_20_7",
     "xeroxSupplies_1_3_6_1_4_1_253_8_53_13_2_1_2_1_20_1",
     "samsungSupplies_1_3_6_1_4_1_236_11_5_11_26_1_1_2_0",
     "samsungSupplies_1_3_6_1_4_1_236_11_5_11_26_1_1_3_0"}

\* extractPageCountersFromSupplies
rescueSection(data) ==
    [data EXCEPT !.Counters = @ \cup (data.Supplies \cap rescueKeys)]

\* The end of collectFromDevice: the empty buckets are reported.
missingSections(data) ==
    LET m1 == IF data.Status = {} THEN <<"status">> ELSE <<>>
        m2 == IF data.Supplies = {} THEN <<"supplies">> ELSE <<>>
        m3 == IF data.Counters = {} THEN <<"counters">> ELSE <<>>
    IN  [data EXCEPT !.MissingSections = @ \o m1 \o m2 \o m3]

\* collectFromDevice, steps 1 to 8 and the report of the empty buckets.
collectSections(dev) ==
    missingSections(
      rescueSection(
        sweepSection(
          countersSection(
            suppliesSection(
              statusSection(
                identificationSection(NewPrinterData, dev), dev), dev), dev),
          dev, 1)))

SectionsInit ==
    /\ mpc = "idle"
    /\ sectionDevice = [idGet |-> "error", statusGet |-> "error",
                        suppliesTree |-> "none", countersTree |-> <<>>,
                        statusTree |-> FALSE]
    /\ sections = NewPrinterData

\* One call of collectFromDevice for a device that answers dev.
CollectSectionsStep(dev) ==
    /\ mpc = "idle"
    /\ sectionDevice' = dev
    /\ sections' = collectSections(dev)
    /\ mpc' = "returned"
    /\ UNCHANGED nonSectionVars

\* CollectData hands the next device to collectFromDevice.
NextSectionDevice ==
    /\ mpc = "returned"
    /\ mpc' = "idle"
    /\ sectionDevice' = [idGet |-> "error", statusGet |-> "error",
                         suppliesTree |-> "none", countersTree |-> <<>>,
                         statusTree |-> FALSE]
    /\ sections' = NewPrinterData
    /\ UNCHANGED nonSectionVars

SectionsNext ==
    \/ \E dev \in (IF mpc = "idle" THEN SectionDevices ELSE {}) :
          CollectSectionsStep(dev)
    \/ NextSectionDevice

(***************************************************************************)
(* The profile cache: Manager.GetOrDiscover and Manager.SaveProfile of     *)
(* src/pkg/profile, called concurrently for one printer id. A profile is   *)
(* the number of the call of SaveProfile that it was handed to.            *)
(***************************************************************************)
\* Goroutines that call the Manager.
MaxProcs == 2
\* Calls made in one behaviour.
MaxCalls == 3

Procs == 1..MaxProcs

\* No profile: the cache has no entry, the file does not exist.
NoProfile == 0
\* The file while os.WriteFile has truncated it and not yet written it.
PartialFile == -1

ProfileInit ==
    /\ cache = NoProfile
    /\ disk = NoProfile
    /\ mu = [readers |-> 0, writer |-> FALSE]
    /\ prpc = [p \in Procs |-> "idle"]
    /\ prLoaded = [p \in Procs |-> NoProfile]
    /\ prReturn = [p \in Procs |-> NoProfile]
    /\ lastSaved = NoProfile
    /\ calls = 0

\* GetOrDiscover is called and takes the read lock: m.mu.RLock().
GetRLock(p) ==
    /\ prpc[p] = "idle"
    /\ calls < MaxCalls
    /\ ~mu.writer
    /\ mu' = [mu EXCEPT !.readers = @ + 1]
    /\ prpc' = [prpc EXCEPT ![p] = "get_check"]
    /\ calls' = calls + 1
    /\ UNCHANGED <<cache, disk, prLoaded, prReturn, lastSaved, nonProfileVars>>

\* GetOrDiscover: the cache is looked up and the read lock released; a hit
\* returns the cached profile.
GetCheck(p) ==
    /\ prpc[p] = "get_check"
    /\ mu' = [mu EXCEPT !.readers = @ - 1]
    /\ IF cache # NoProfile
       THEN /\ prReturn' = [prReturn EXCEPT ![p] = cache]
            /\ prpc' = [prpc EXCEPT ![p] = "idle"]
       ELSE /\ prpc' = [prpc EXCEPT ![p] = "get_load"]
            /\ UNCHANGED prReturn
    /\ UNCHANGED <<cache, disk, prLoaded, lastSaved, calls, nonProfileVars>>

\* GetOrDiscover: loadFromDisk, without a lock; no file or a file that does
\* not parse returns nil.
GetLoad(p) ==
    /\ prpc[p] = "get_load"
    /\ IF disk \in {NoProfile, PartialFile}
       THEN /\ prReturn' = [prReturn EXCEPT ![p] = NoProfile]
            /\ prpc' = [prpc EXCEPT ![p] = "idle"]
            /\ UNCHANGED prLoaded
       ELSE /\ prLoaded' = [prLoaded EXCEPT ![p] = disk]
            /\ prpc' = [prpc EXCEPT ![p] = "get_store"]
            /\ UNCHANGED prReturn
    /\ UNCHANGED <<cache, disk, mu, lastSaved, calls, nonProfileVars>>

\* GetOrDiscover: m.mu.Lock(); m.cache[printerID] = p; m.mu.Unlock().
GetStore(p) ==
    /\ prpc[p] = "get_store"
    /\ ~mu.writer /\ mu.readers = 0
    /\ cache' = prLoaded[p]
    /\ prReturn' = [prReturn EXCEPT ![p] = prLoaded[p]]
    /\ prpc' = [prpc EXCEPT ![p] = "idle"]
    /\ UNCHANGED <<disk, mu, prLoaded, lastSaved, calls, nonProfileVars>>

\* SaveProfile is called with a new profile, takes the write lock and
\* stores the profile in the cache.
SaveLock(p) ==
    /\ prpc[p] = "idle"
    /\ calls < MaxCalls
    /\ ~mu.writer /\ mu.readers = 0
    /\ mu' = [mu EXCEPT !.writer = TRUE]
    /\ lastSaved' = calls + 1
    /\ cache' = lastSaved'
    /\ prLoaded' = [prLoaded EXCEPT ![p] = lastSaved']
    /\ prpc' = [prpc EXCEPT ![p] = "save_truncate"]
    /\ calls' = calls + 1
    /\ UNCHANGED <<disk, prReturn, nonProfileVars>>

\* saveToDisk: os.WriteFile opens the file and truncates it.
SaveTruncate(p) ==
    /\ prpc[p] = "save_truncate"
    /\ disk' = PartialFile
    /\ prpc' = [prpc EXCEPT ![p] = "save_write"]
    /\ UNCHANGED <<cache, mu, prLoaded, prReturn, lastSaved, calls, nonProfileVars>>

\* saveToDisk: the bytes are written; SaveProfile returns and unlocks.
SaveWrite(p) ==
    /\ prpc[p] = "save_write"
    /\ disk' = prLoaded[p]
    /\ mu' = [mu EXCEPT !.writer = FALSE]
    /\ prpc' = [prpc EXCEPT ![p] = "idle"]
    /\ UNCHANGED <<cache, prLoaded, prReturn, lastSaved, calls, nonProfileVars>>

\* The agent is started again: NewManager makes an empty cache, the file
\* of the earlier run stays.
NewManager ==
    /\ \A p \in Procs : prpc[p] = "idle"
    /\ cache # NoProfile
    /\ cache' = NoProfile
    /\ lastSaved' = NoProfile
    /\ prLoaded' = [p \in Procs |-> NoProfile]
    /\ prReturn' = [p \in Procs |-> NoProfile]
    /\ UNCHANGED <<disk, mu, prpc, calls, nonProfileVars>>

ProfileNext ==
    \/ NewManager
    \/ \E p \in Procs :
        \/ GetRLock(p)
        \/ GetCheck(p)
        \/ GetLoad(p)
        \/ GetStore(p)
        \/ SaveLock(p)
        \/ SaveTruncate(p)
        \/ SaveWrite(p)

(***************************************************************************)
(* ParseIPRange and parseRangeFormat of src/pkg/scanner/network.go. The    *)
(* range is a string (a sequence of characters); an address is the tuple   *)
(* of its four octets.                                                     *)
(***************************************************************************)
\* Split(str, sep) of package strings, for a one-character sep.
RECURSIVE Split(_, _)
Split(str, sep) ==
    IF \E i \in DOMAIN str : str[i] = sep
    THEN LET i == CHOOSE k \in DOMAIN str :
                     str[k] = sep /\ \A j \in 1..(k - 1) : str[j] # sep
         IN  <<SubSeq(str, 1, i - 1)>> \o Split(SubSeq(str, i + 1, Len(str)), sep)
    ELSE <<str>>

\* strconv.Itoa, for a number from 0 to 999.
Itoa(n) ==
    IF n < 10 THEN <<DigitChars[n + 1]>>
    ELSE IF n < 100 THEN <<DigitChars[(n \div 10) + 1], DigitChars[(n % 10) + 1]>>
    ELSE <<DigitChars[(n \div 100) + 1], DigitChars[((n \div 10) % 10) + 1],
           DigitChars[(n % 10) + 1]>>

\* strconv.Atoi: an optional sign and digits only.
Atoi(str) ==
    LET signed == str # <<>> /\ Head(str) \in {"-", "+"}
        digits == IF signed THEN Tail(str) ELSE str
        n      == ScanDigits(digits, 0)
    IN  [err   |-> digits = <<>> \/ \E i \in DOMAIN digits : ~IsDigit(digits[i]),
         value |-> IF signed /\ Head(str) = "-" THEN 0 - n ELSE n]

\* A field of a dotted IPv4 literal as net.ParseIP accepts it: one to three
\* digits, no leading zero, at most 255.
IsOctet(field) ==
    /\ Len(field) \in 1..3
    /\ \A i \in DOMAIN field : IsDigit(field[i])
    /\ Len(field) > 1 => field[1] # "0"
    /\ ScanDigits(field, 0) <= 255

\* net.ParseIP followed by To4, for the strings of RangeInputs: nil unless
\* the string is four octets separated by dots.
ParseIPv4(str) ==
    LET fields == Split(str, ".")
    IN  IF Len(fields) = 4 /\ \A i \in 1..4 : IsOctet(fields[i])
        THEN [nil |-> FALSE, ip |-> [i \in 1..4 |-> ScanDigits(fields[i], 0)]]
        ELSE [nil |-> TRUE, ip |-> <<>>]

\* parseRangeFormat
parseRangeFormat(startIP, endOctet) ==
    LET ip     == ParseIPv4(startIP)
        endNum == Atoi(endOctet)
    IN  IF ip.nil THEN [err |-> TRUE, ips |-> <<>>]
        ELSE IF endNum.err THEN [err |-> TRUE, ips |-> <<>>]
        ELSE IF endNum.value < 0 \/ endNum.value > 255
        THEN [err |-> TRUE, ips |-> <<>>]
        ELSE [err |-> FALSE,
              ips |-> [k \in 1..(IF endNum.value >= ip.ip[4]
                                 THEN endNum.value - ip.ip[4] + 1 ELSE 0) |->
                          <<ip.ip[1], ip.ip[2], ip.ip[3], ip.ip[4] + k - 1>>]]

\* ParseIPRange
ParseIPRange(ipRange) ==
    LET parts == Split(ipRange, "-")
    IN  IF Len(parts) = 2 THEN parseRangeFormat(parts[1], parts[2])
        ELSE IF Len(parts) = 1
        THEN IF ~ParseIPv4(ipRange).nil
             THEN [err |-> FALSE, ips |-> <<ParseIPv4(ipRange).ip>>]
             ELSE [err |-> TRUE, ips |-> <<>>]
        ELSE [err |-> TRUE, ips |-> <<>>]

\* The last octets X and Y of the ranges handed to ParseIPRange.
OctetValues == {0, 1, 2, 3, 9, 10, 254, 255, 256, 300}

NetPrefix == <<"1", "0", ".", "0", ".", "0", ".">>

\* The strings handed to ParseIPRange: "10.0.0.X-Y" and "10.0.0.X" for the
\* octet values, and strings of neither form.
RangeInputs ==
    {[kind |-> "range", x |-> x, y |-> y,
      text |-> NetPrefix \o Itoa(x) \o <<"-">> \o Itoa(y)] : x, y \in OctetValues}
    \cup {[kind |-> "single", x |-> x, y |-> x,
           text |-> NetPrefix \o Itoa(x)] : x \in OctetValues}
    \cup {[kind |-> "other", x |-> 0, y |-> 0, text |-> t] :
            t \in {<<>>, <<"a", "b", "c">>, <<"1", "0", ".", "0", ".", "0", ".", "1", "-", "2", "-", "3">>, <<"1", "0", ".", "0", ".", "0", "-", "5">>, <<"1", "0", ".", "0", ".", "0", ".", "1", "-", "x">>, <<"1", "0", ".", "0", ".", "0", ".", "0", "1", "-", "5">>}}

NoRange == [kind |-> "other", x |-> 0, y |-> 0, text |-> <<>>]

RangeInit ==
    /\ rpc = "idle"
    /\ rangeInput = NoRange
    /\ parseResult = [err |-> FALSE, ips |-> <<>>]

\* main calls ParseIPRange with the configured range.
ParseStep(in) ==
    /\ rpc = "idle"
    /\ rangeInput' = in
    /\ parseResult' = ParseIPRange(in.text)
    /\ rpc' = "parsed"
    /\ UNCHANGED nonRangeVars

\* The agent is started again with another configuration.
RestartAgent ==
    /\ rpc = "parsed"
    /\ rpc' = "idle"
    /\ rangeInput' = NoRange
    /\ parseResult' = [err |-> FALSE, ips |-> <<>>]
    /\ UNCHANGED nonRangeVars

RangeNext ==
    \/ \E in \in (IF rpc = "idle" THEN RangeInputs ELSE {}) : ParseStep(in)
    \/ RestartAgent

(***************************************************************************)
(* SNMPClient.GetMultiple of src/pkg/snmp. The package holds the client    *)
(* with batches (hex_decoder.go:462-502) and without (762-791); the agent  *)
(* is built with one of them. The OIDs of a request are numbered from 1.   *)
(***************************************************************************)
\* Length of the longest OID list handed to GetMultiple.
MaxOIDs == 101

maxOIDsPerBatch == 50

\* What the device (or the SNMP library) answers to one GET.
GetResponses == {"variables", "error", "nil"}

GetMultipleInit ==
    /\ gmpc = "idle"
    /\ clientBuild = "batches"
    /\ oidCount = 0
    /\ batchStart = 0
    /\ getRequests = <<>>
    /\ values = {}
    /\ gmErr = FALSE

\* GetMultiple is called with n OIDs: an empty list returns an empty
\* mapping, a failed connect returns the error.
GetMultipleCall(build, n, connected) ==
    /\ gmpc = "idle"
    /\ clientBuild' = build
    /\ oidCount' = n
    /\ batchStart' = 0
    /\ getRequests' = <<>>
    /\ values' = {}
    /\ gmErr' = (n > 0 /\ ~connected)
    /\ gmpc' = IF n = 0 \/ ~connected THEN "returned" ELSE "get"
    /\ UNCHANGED nonGetMultipleVars

\* The client with batches: one iteration of the loop over the batches.
BatchGet(resp) ==
    /\ gmpc = "get"
    /\ clientBuild = "batches"
    /\ batchStart < oidCount
    /\ LET batchEnd == IF batchStart + maxOIDsPerBatch > oidCount
                       THEN oidCount ELSE batchStart + maxOIDsPerBatch
       IN  /\ getRequests' = Append(getRequests, (batchStart + 1)..batchEnd)
           /\ IF resp = "variables"
              THEN /\ values' = values \cup ((batchStart + 1)..batchEnd)
                   /\ batchStart' = batchStart + maxOIDsPerBatch
                   /\ gmpc' = IF batchStart' < oidCount THEN "get" ELSE "returned"
                   /\ UNCHANGED gmErr
              ELSE /\ gmErr' = TRUE
                   /\ gmpc' = "returned"
                   /\ UNCHANGED <<values, batchStart>>
    /\ UNCHANGED <<clientBuild, oidCount, nonGetMultipleVars>>

\* The client without batches: client.Get(oids) with the whole list.
SingleGet(resp) ==
    /\ gmpc = "get"
    /\ clientBuild = "single"
    /\ getRequests' = Append(getRequests, 1..oidCount)
    /\ IF resp = "variables"
       THEN /\ values' = 1..oidCount
            /\ UNCHANGED gmErr
       ELSE /\ gmErr' = TRUE
            /\ UNCHANGED values
    /\ gmpc' = "returned"
    /\ UNCHANGED <<clientBuild, oidCount, batchStart, nonGetMultipleVars>>

\* The caller goes on to its next request.
NextRequest ==
    /\ gmpc = "returned"
    /\ gmpc' = "idle"
    /\ clientBuild' = "batches"
    /\ oidCount' = 0
    /\ batchStart' = 0
    /\ getRequests' = <<>>
    /\ values' = {}
    /\ gmErr' = FALSE
    /\ UNCHANGED nonGetMultipleVars

GetMultipleNext ==
    \/ \E build \in {"batches", "single"}, n \in 0..MaxOIDs, connected \in BOOLEAN :
          GetMultipleCall(build, n, connected)
    \/ \E resp \in GetResponses : BatchGet(resp)
    \/ \E resp \in GetResponses : SingleGet(resp)
    \/ NextRequest

(***************************************************************************)
(* The polls of one address, one after the other (main.go:150-205, one     *)
(* iteration of the loop per poll). The state file is the file of          *)
(* getStateFilename (state.go:97-101), named by the IP alone; the printer  *)
(* that answers is told apart by the id of buildPrinterID.                 *)
(***************************************************************************)
\* The MAC addresses of the two printers that may answer on the address.
PollMacs ==
    {<<"A", "A", ":", "B", "B", ":", "C", "C", ":", "D", "D", ":", "E", "E", ":", "0", "1">>,
     <<"a", "a", ":", "b", "b", ":", "c", "c", ":", "d", "d", ":", "e", "e", ":", "0", "2">>}

\* printer.id of the events of each of them.
printerIDOf == [m \in PollMacs |-> buildPrinterID(m, <<>>, CHOOSE ip \in IPs : TRUE)]

NoPrinterID == <<>>

\* The counters a poll may read: total_pages and mono_pages, each read or not.
PollDatas ==
    {pd \in PrinterDatas :
        \A f \in Fields \ {"total_pages", "mono_pages"} :
            pd.NormalizedCounters[f] = Missing}

\* What SaveState does to the file: os.WriteFile creates or truncates it
\* and then writes.
SaveOutcomes == {"written", "open_failed", "write_failed"}

NoQueued == [present |-> FALSE, id |-> NoPrinterID, absolute |-> ZeroCounters]

PollsInit ==
    /\ pollFile = Absent
    /\ fileWriter = NoPrinterID
    /\ pollPrinter = NoPrinterID
    /\ pollRead = NoPrinterData
    /\ pollEvent = NoSnapshot
    /\ pollQueued = FALSE
    /\ lastQueued = NoQueued
    /\ lastRead = ZeroCounters
    /\ resetSince = FALSE

\* One iteration of the loop: CalculateDelta, SaveState, Build, Serialize,
\* fileSink.Write. A printer without counters skips the first two; a
\* failed Write leaves the state saved and queues nothing.
PollStep(pd, mac, save, sinkOk) ==
    LET currentCounters == CurrentCounters(pd)
        r == IF HasCounters(pd)
             THEN CalculateDelta(LoadState(pollFile), currentCounters)
             ELSE [delta |-> NilDelta, reset |-> FALSE]
        event == Build(pd, r.delta, r.reset).counters
        saved == HasCounters(pd) /\ save = "written"
        dropped == \E f \in Fields : currentCounters[f] < lastRead[f]
    IN  /\ pollFile' = IF ~HasCounters(pd) \/ save = "open_failed" THEN pollFile
                       ELSE IF save = "write_failed" THEN Garbage
                       ELSE StateOf(currentCounters)
        /\ fileWriter' = IF saved THEN printerIDOf[mac]
                         ELSE IF HasCounters(pd) /\ save = "write_failed"
                         THEN NoPrinterID ELSE fileWriter
        /\ pollPrinter' = printerIDOf[mac]
        /\ pollRead' = pd
        /\ pollEvent' = event
        /\ pollQueued' = sinkOk
        /\ lastQueued' = IF ~sinkOk THEN lastQueued
                         ELSE IF event.present
                         THEN [present |-> TRUE, id |-> printerIDOf[mac],
                               absolute |-> event.absolute]
                         ELSE NoQueued
        /\ lastRead' = IF HasCounters(pd) THEN currentCounters ELSE lastRead
        /\ resetSince' = IF sinkOk THEN FALSE
                         ELSE \/ resetSince
                              \/ HasCounters(pd) /\ dropped
                              \/ lastQueued.present /\ lastQueued.id # printerIDOf[mac]
        /\ UNCHANGED nonPollVars

PollsNext ==
    \E pd \in PollDatas, mac \in PollMacs, save \in SaveOutcomes, sinkOk \in BOOLEAN :
        PollStep(pd, mac, save, sinkOk)

(***************************************************************************)
(* The validity of the profile of one printer: DiscoverAndSave,            *)
(* UpdateValidation and NeedsRediscovery of the Manager                    *)
(* (friendly_names.go:325-398) on the profile DiscoverProfile builds       *)
(* (part_004:22-55). SuccessRate is kept as the fraction num/den; the age  *)
(* of the profile is counted in whole days since DiscoveredAt.             *)
(***************************************************************************)
\* Days the clock may advance after a discovery.
MaxDays == 8

\* Cap of DiscoveryAttempts.
MaxAttempts == 8

NoCachedProfile ==
    [exists |-> FALSE, age |-> 0, DiscoveryAttempts |-> 0, ErrorCount |-> 0,
     SuccessRate |-> [num |-> 0, den |-> 1]]

\* The profile DiscoverProfile returns: DiscoveredAt is now and
\* DiscoveryAttempts is 1; ErrorCount and SuccessRate keep Go's zero value.
DiscoverProfile ==
    [exists |-> TRUE, age |-> 0, DiscoveryAttempts |-> 1, ErrorCount |-> 0,
     SuccessRate |-> [num |-> 0, den |-> 1]]

\* p.SuccessRate < 0.8
BelowRate(rate) == rate.num * 5 < rate.den * 4

\* Manager.NeedsRediscovery on the profile GetOrDiscover returns.
NeedsRediscovery(p) ==
    IF ~p.exists THEN TRUE
    ELSE IF p.age > 7 THEN TRUE
    ELSE IF BelowRate(p.SuccessRate) THEN TRUE
    ELSE IF p.ErrorCount > 5 THEN TRUE
    ELSE FALSE

ValidationInit ==
    /\ cachedProfile = NoCachedProfile
    /\ sinceDiscovery = "never"
    /\ needsRediscovery = "not asked"

\* DiscoverAndSave: the new profile replaces the cached one; when the
\* discovery or saveToDisk fails the call returns the error.
DiscoverAndSave(discovered, saved) ==
    /\ cachedProfile' = IF discovered THEN DiscoverProfile ELSE cachedProfile
    /\ sinceDiscovery' = IF discovered /\ saved THEN "nothing"
                         ELSE IF discovered THEN "never" ELSE sinceDiscovery
    /\ needsRediscovery' = "not asked"
    /\ UNCHANGED nonValidationVars

\* UpdateValidation after a poll.
UpdateValidation(success) ==
    /\ cachedProfile.exists
    /\ cachedProfile.DiscoveryAttempts < MaxAttempts
    /\ LET attempts == cachedProfile.DiscoveryAttempts + 1
           errors == IF success THEN 0 ELSE cachedProfile.ErrorCount + 1
       IN  cachedProfile' =
               [cachedProfile EXCEPT
                   !.DiscoveryAttempts = attempts,
                   !.ErrorCount = errors,
                   !.SuccessRate = IF success THEN [num |-> 19, den |-> 20]
                                   ELSE [num |-> attempts - errors, den |-> attempts]]
    /\ sinceDiscovery' = IF sinceDiscovery = "never" THEN "never" ELSE "updates"
    /\ needsRediscovery' = "not asked"
    /\ UNCHANGED nonValidationVars

\* A day goes by.
DayPasses ==
    /\ cachedProfile.exists
    /\ cachedProfile.age < MaxDays
    /\ cachedProfile' = [cachedProfile EXCEPT !.age = @ + 1]
    /\ sinceDiscovery' = IF sinceDiscovery = "never" THEN "never" ELSE "updates"
    /\ needsRediscovery' = "not asked"
    /\ UNCHANGED nonValidationVars

\* The agent asks NeedsRediscovery.
AskNeedsRediscovery ==
    /\ needsRediscovery = "not asked"
    /\ needsRediscovery' = IF NeedsRediscovery(cachedProfile) THEN "true" ELSE "false"
    /\ UNCHANGED <<cachedProfile, sinceDiscovery, nonValidationVars>>

ValidationNext ==
    \/ \E discovered \in BOOLEAN, saved \in BOOLEAN : DiscoverAndSave(discovered, saved)
    \/ \E success \in BOOLEAN : UpdateValidation(success)
    \/ DayPasses
    \/ AskNeedsRediscovery

Init == AgentInit /\ HTTPInit /\ FanInit /\ IDInit /\ CountersInit /\ SuppliesInit /\ SectionsInit /\ ProfileInit /\ RangeInit /\ GetMultipleInit /\ PollsInit /\ ValidationInit

Next == AgentNext

Spec == Init /\ [][Next]_vars

NextHTTP == HTTPNext

SpecHTTP == Init /\ [][NextHTTP]_vars

NextFan == FanNext

SpecFan == Init /\ [][NextFan]_vars

\* The steps of the goroutines, of the closer and of the receive loop of a
\* running Scan or CollectData. The Go scheduler runs a goroutine that can
\* take a step, and every probe and collection ends.
FanProgress ==
    \/ \E i \in 1..MaxInputs : Acquire(i)
    \/ \E i \in 1..MaxInputs, out \in ProbeOutcomes \cup CollectOutcomes :
          ProbeAndSend(i, out)
    \/ \E i \in 1..MaxInputs : Release(i)
    \/ CloseResults
    \/ ReceiveResult
    \/ FanReturn

SpecFanFair == Init /\ [][NextFan]_vars /\ WF_vars(FanProgress)

NextID == IDNext

SpecID == Init /\ [][NextID]_vars

NextCounters == CountersNext

SpecCounters == Init /\ [][NextCounters]_vars

NextSupplies == SuppliesNext

SpecSupplies == Init /\ [][NextSupplies]_vars

NextSections == SectionsNext

SpecSections == Init /\ [][NextSections]_vars

NextProfile == ProfileNext

SpecProfile == Init /\ [][NextProfile]_vars

NextRange == RangeNext

SpecRange == Init /\ [][NextRange]_vars

NextGetMultiple == GetMultipleNext

SpecGetMultiple == Init /\ [][NextGetMultiple]_vars

NextPolls == PollsNext

SpecPolls == Init /\ [][NextPolls]_vars

NextValidation == ValidationNext

SpecValidation == Init /\ [][NextValidation]_vars

(***************************************************************************)
(* Claims about the state store and processPrinters (under Spec).          *)
(***************************************************************************)
\* Some counter of cur is lower than the stored one.
AnyBelow(cur, stored) == \E f \in Fields : cur[f] < stored[f]

\* The event of the printer being processed has been written to the queue.
Emitted == pc = "done" /\ sinkErr = "ok" /\ jsonBytes.present

\* C1: for every emitted event whose counters.delta is non-null, each of the
\* six delta components is >= 0 and equals the event's absolute value minus
\* the value the state file held for the printer before this poll.
C1_DeltaNonNegativeAndExact ==
    (Emitted /\ jsonBytes.event.counters.present
             /\ jsonBytes.event.counters.delta.present)
    => \A f \in Fields :
          /\ jsonBytes.event.counters.delta.value[f] >= 0
          /\ jsonBytes.event.counters.delta.value[f] =
                jsonBytes.event.counters.absolute[f] - loaded.counters[f]

\* C2: when a stored state exists, CalculateDelta returns (nil, true) whenever
\* any one of the six current counters is lower than the stored one, and
\* (current - stored, false) otherwise.
C2_ResetOnAnyCounterBelow ==
    (loaded.called /\ loaded.present)
    => IF AnyBelow(CurrentCounters(printerData), loaded.counters)
       THEN ~delta.present /\ resetDetected
       ELSE /\ delta.present
            /\ ~resetDetected
            /\ \A f \in Fields :
                  delta.value[f] =
                     CurrentCounters(printerData)[f] - loaded.counters[f]

\* C3: a poll whose counters fall below the stored ones produces an event with
\* delta = null and reset_detected = true and makes its counters the stored
\* baseline; a poll whose counters are at or above the stored baseline (the
\* counters of the latest saved poll) produces reset_detected = false and
\* delta = its counters minus the baseline.
C3_ResetThenNewBaseline ==
    (pc = "done" /\ loaded.called /\ loaded.present /\ telem.built)
    => IF AnyBelow(CurrentCounters(printerData), loaded.counters)
       THEN /\ telem.counters.present
            /\ ~telem.counters.delta.present
            /\ telem.counters.reset_detected
            /\ (saveErr = "ok" =>
                  stateFile[printerData.IP] =
                     StateOf(CurrentCounters(printerData)))
       ELSE /\ telem.counters.present
            /\ ~telem.counters.reset_detected
            /\ telem.counters.delta.present
            /\ \A f \in Fields :
                  telem.counters.delta.value[f] =
                     CurrentCounters(printerData)[f] - loaded.counters[f]

\* C4: when the printer has no state file, or the file holds unparsable JSON,
\* the poll produces delta = null with reset_detected = false, as a first poll
\* does, and the run is not aborted: the event is built with that snapshot
\* and the iteration reaches the sink write.
C4_NoStateIsFirstPoll ==
    (loaded.called /\ ~loaded.present)
    => /\ ~delta.present
       /\ ~resetDetected
       /\ pc # "fatal"
       /\ (telem.built =>
              /\ telem.counters.present
              /\ ~telem.counters.delta.present
              /\ ~telem.counters.reset_detected)
       /\ (pc = "done" => sinkErr # "none")

\* A poll that found an unparsable state file has put its event in the queue.
C4_Witness ==
    /\ Emitted
    /\ loaded.called
    /\ loaded.err
    /\ jsonBytes.event.counters.present
    /\ ~jsonBytes.event.counters.delta.present

\* C5 as stated: the state file is written after the printer's event has been
\* serialized and before the sink write for that event is attempted.
C5_StateWrittenAfterSerialize ==
    /\ (saveErr = "ok" => jsonBytes.present)
    /\ ((HasCounters(printerData) /\ sinkErr # "none") => saveErr # "none")

\* C5 amended: for a printer that has counters SaveState has returned (the
\* state file is written, unless the write failed) before the event is built,
\* serialized and handed to the sink; the event is built before it is
\* serialized and serialized before the sink write; for a printer without
\* counters SaveState is not called.
C5_StateWrittenBeforeBuild ==
    /\ ((HasCounters(printerData) /\ telem.built) => saveErr # "none")
    /\ (jsonBytes.present => telem.built)
    /\ (sinkErr # "none" => jsonBytes.present)
    /\ (~HasCounters(printerData) => saveErr = "none")

\* The state of a printer has been saved and its event queued.
C5_Witness ==
    /\ Emitted
    /\ saveErr = "ok"
    /\ stateFile[printerData.IP] = StateOf(CurrentCounters(printerData))

\* C6: at every point of a save the state file of a printer holds a complete
\* state (the previous one or the new one) or does not exist yet; it is never
\* empty or partially written.
C6_SaveIsAtomic ==
    \A ip \in IPs : stateFile[ip].kind \in {"absent", "state"}

\* C14: no event is written to the queue for a device that was discovered but
\* answered none of the queries of its collection; the run is not aborted by
\* such a device.
C14_FailedDeviceHasNoEvent ==
    /\ (Emitted => printerData.Answered)
    /\ ((pc = "fatal") => printerData = NoPrinterData)

(***************************************************************************)
(* Claims about HTTPSink.Write (under SpecHTTP).                           *)
(***************************************************************************)
Is2xx(status) == status >= 200 /\ status <= 299
Is4xx(status) == status >= 400 /\ status <= 499
Min2(a, b) == IF a < b THEN a ELSE b

RECURSIVE Pow2(_)
Pow2(n) == IF n = 0 THEN 1 ELSE 2 * Pow2(n - 1)

\* C7: when a POST attempt receives a 4xx response (429 included), Write
\* returns an error at once and makes no further attempt.
C7_ClientErrorIsTerminal ==
    (posts > 0 /\ Is4xx(lastStatus))
    => /\ wpc \in {"returned", "ready"}
       /\ result \notin {"nil", "none"}

\* C8 as stated: for every configured max_retries >= 0, 0 included, one Write
\* makes at most max_retries + 1 POST attempts, and none after a 2xx.
C8_AtMostConfiguredPlusOne ==
    /\ (config.MaxRetries >= 0 => posts <= config.MaxRetries + 1)
    /\ ((posts > 0 /\ Is2xx(lastStatus)) => wpc \in {"returned", "ready"})

\* C8 amended: for every configured max_retries > 0 one Write makes at most
\* max_retries + 1 POST attempts; a configured 0 stands for the default 3, so
\* at most 4 attempts; a negative value allows no attempt; and no attempt
\* follows one that received 2xx: Write then returns nil.
C8_AttemptsBounded ==
    /\ (config.MaxRetries > 0 => posts <= config.MaxRetries + 1)
    /\ (config.MaxRetries = 0 => posts <= 3 + 1)
    /\ (config.MaxRetries < 0 => posts = 0)
    /\ ((posts > 0 /\ Is2xx(lastStatus))
           => wpc \in {"returned", "ready"} /\ result = "nil")

\* A Write configured with 2 retries has used its 3 attempts and failed.
C8_Witness ==
    /\ config.MaxRetries = 2
    /\ posts = 3
    /\ wpc = "returned"
    /\ result = "failed_after_attempts"

\* C9: Write returns nil only if one of its POST attempts received a 2xx
\* response, for every configured max_retries, negative ones included.
C9_NilOnlyAfter2xx ==
    result = "nil" => (posts > 0 /\ Is2xx(lastStatus))

\* C10 as stated: the wait before the k-th retry is
\* min(initial_wait * 2^(k-1), 60 s), for every configured initial_wait.
C10_WaitIsCappedPower ==
    \A k \in 1..Len(waits) :
        waits[k] = Min2(config.InitialWait * Pow2(k - 1), 60)

\* C10 amended: the first wait is the initial wait in effect (the configured
\* one, 1 s when 0 is configured) and is not capped; every later wait is the
\* previous one doubled and capped at 60 s; for a configured initial_wait in
\* (0, 60 s] the k-th wait is min(initial_wait * 2^(k-1), 60 s).
C10_WaitsDoubleFromInitial ==
    /\ (Len(waits) >= 1 =>
           waits[1] = IF config.InitialWait = 0 THEN 1 ELSE config.InitialWait)
    /\ \A k \in 2..Len(waits) :
           /\ waits[k] = Min2(2 * waits[k - 1], 60)
           /\ waits[k] <= 60
    /\ ((config.InitialWait > 0 /\ config.InitialWait <= 60) =>
           \A k \in 1..Len(waits) :
               waits[k] = Min2(config.InitialWait * Pow2(k - 1), 60))

\* Three retries from 20 s: the third wait reaches the cap.
C10_Witness ==
    /\ Len(waits) = 3
    /\ waits[1] = 20
    /\ waits[3] = 60

\* C11: when the context is cancelled while Write waits before a retry (the
\* timer of the wait is still pending), the step Write takes is to return the
\* context-cancelled sink error, which carries the number of POST attempts
\* already made, without a further POST; and no POST follows that return.
C11_CancelDuringWaitReturns ==
    [][/\ (wpc = "wait" /\ ctxDone /\ waitDuration > 0)
          => /\ result' = "context_cancelled"
             /\ wpc' = "returned"
             /\ errCount' = posts
             /\ posts' = posts
       /\ result' = "context_cancelled"
          => /\ wpc' \in {"returned", "ready"}
             /\ errCount' = posts'
             /\ errCount' >= 1]_vars

\* A Write cancelled during the wait before its second retry has returned
\* the context-cancelled error after two attempts.
C11_Witness ==
    /\ result = "context_cancelled"
    /\ wpc = "returned"
    /\ posts = 2
    /\ errCount = 2
    /\ hs.initialWait > 0

(***************************************************************************)
(* Claims about Scan and CollectData (under SpecFan).                      *)
(***************************************************************************)
\* C12: at every moment of the discovery scan and of the collection phase the
\* number of inputs being probed (Scan) or collected (CollectData) is at most
\* max_concurrent_connections, as is the number of slots held; every
\* goroutine that has not started its probe stands at the semaphore, and
\* cannot pass it while max_concurrent_connections slots are held.
C12_AtMostMaxConcurrent ==
    fpc = "receiving"
    => /\ Cardinality(Probing) <= maxConcurrent
       /\ semaphore <= maxConcurrent
       /\ semaphore =
             Cardinality({i \in Goroutines : gpc[i] \in {"probing", "release"}})
       /\ \A i \in Goroutines :
             gpc[i] \in {"acquire", "probing", "release", "done"}
       /\ (semaphore = maxConcurrent =>
              \A i \in Goroutines : gpc[i] = "acquire" => ~ENABLED Acquire(i))

\* The collection phase runs max_concurrent_connections = 2 collections at
\* once while a third device waits at the semaphore.
C12_Witness ==
    /\ fpc = "receiving"
    /\ fkind = "collect"
    /\ maxConcurrent = 2
    /\ Cardinality(Probing) = 2
    /\ \E i \in Goroutines : gpc[i] = "acquire"

\* The number of entries of seq that satisfy ip.
CountIP(seq, ip) == Cardinality({k \in 1..Len(seq) : seq[k].IP = ip})

\* C13: when Scan returns, under every interleaving of the probes, its
\* results hold exactly one result for each entry of the input list whose
\* probe succeeded with a non-empty sysDescr, and none for an entry whose
\* probe failed or returned an empty sysDescr.
C13_OneResultPerResponsiveIP ==
    (fpc = "returned" /\ fkind = "scan")
    => /\ \A k \in 1..Len(results) : results[k].IsResponsive
       /\ \A ip \in ScanIPs :
             CountIP(results, ip) =
                Cardinality({i \in Goroutines :
                                inputs[i] = ip /\ outcome[i] = "responsive"})
       /\ Len(results) =
             Cardinality({i \in Goroutines : outcome[i] = "responsive"})

\* A scan of three entries has returned with one responsive device, one
\* whose probe failed and one whose sysDescr was empty.
C13_Witness ==
    /\ fpc = "returned"
    /\ fkind = "scan"
    /\ Len(inputs) = 3
    /\ Len(results) = 1
    /\ \E i \in Goroutines : outcome[i] = "sysdescr_error"
    /\ \E i \in Goroutines : outcome[i] = "sysdescr_empty"

(***************************************************************************)
(* Claims about the printer identity (under SpecID).                       *)
(***************************************************************************)
\* C15: two polls of a device that answers every request identically produce
\* events with the same printer.id, also when ifPhysAddress.1 and
\* ifPhysAddress.2 are both non-empty and different.
C15_SameDeviceSameID ==
    \A i, j \in 1..Len(printerIDs) : printerIDs[i].id = printerIDs[j].id

HexChars == {"0", "1", "2", "3", "4", "5", "6", "7", "8", "9",
             "a", "b", "c", "d", "e", "f"}

\* A MAC with its separators stripped and lower-cased.
StripSeparators(mac) ==
    ToLower(ReplaceAll(ReplaceAll(ReplaceAll(mac, ":"), "-"), "."))

\* The MAC consists of at least 12 hex characters once separators are stripped.
IsMac12Hex(mac) ==
    /\ Len(StripSeparators(mac)) >= 12
    /\ \A k \in 1..Len(StripSeparators(mac)) : StripSeparators(mac)[k] \in HexChars

\* C16: printer.id is the MAC with its separators stripped and lower-cased
\* when a MAC is present and has at least 12 hex characters; otherwise the
\* trimmed lower-cased serial when one is present; otherwise the IP.
C16_IDFromMacSerialIP ==
    \A i \in 1..Len(printerIDs) :
        printerIDs[i].id =
            IF printerIDs[i].macAddress # <<>> /\ IsMac12Hex(printerIDs[i].macAddress)
            THEN StripSeparators(printerIDs[i].macAddress)
            ELSE IF TrimSpace(device.serial_number) # <<>>
            THEN ToLower(TrimSpace(device.serial_number))
            ELSE IPString(device.IP)

(***************************************************************************)
(* Claims about the collected counters (under SpecCounters).               *)
(***************************************************************************)
\* C17: for every emitted event that has counters, every field of
\* counters.absolute is >= 0 and <= 3,000,000,000, whichever path (WALK
\* mapping, profile GET, vendor-specific GET, page_count fallback) gave it.
C17_AbsoluteWithinLimit ==
    (cpc = "emitted" /\ snapshot.present)
    => \A f \in Fields :
          LE(Zero, snapshot.absolute[f]) /\ LE(snapshot.absolute[f], CounterLimit)

\* An event whose total_pages is exactly 3,000,000,000, read by the
\* vendor-specific GET of a device that also answered 3,000,000,001.
C17_Witness ==
    /\ cpc = "emitted"
    /\ snapshot.present
    /\ snapshot.absolute["total_pages"] = CounterLimit
    /\ ~readings.profile
    /\ readings.brand = "HP"
    /\ \E i \in DOMAIN readings.get : readings.get[i] = Num(3, 1)
    /\ \A i \in DOMAIN readings.walk : ~KeepCounter(readings.walk[i])

\* C18: when the total_pages obtained from the counter OIDs is missing or is
\* a value of the suspicious-value table and the device holds a positive
\* page count, counters.absolute.total_pages of the emitted event equals
\* that page count.
C18_PageCountReplacesSentinel ==
    (/\ cpc = "emitted"
     /\ snapshot.present
     /\ LT(Zero, readings.page_count)
     /\ \/ CountersFromOIDs(readings)["total_pages"] = NoEntry
        \/ isSuspiciousValue(CountersFromOIDs(readings)["total_pages"]))
    => snapshot.absolute["total_pages"] = readings.page_count

(***************************************************************************)
(* Claims about supplies and alerts (under SpecSupplies).                  *)
(***************************************************************************)
\* C19: every supply of an emitted event has 0 <= percentage <= 100 and a
\* status among critical, low, ok, good, whatever level and maximum the
\* device reports (a level above the maximum and a negative level included).
C19_SupplyPercentageAndStatus ==
    spc = "built" =>
        \A i \in DOMAIN eventSupplies :
            /\ 0 <= eventSupplies[i].Percentage
            /\ eventSupplies[i].Percentage <= 100
            /\ eventSupplies[i].Status \in {"critical", "low", "ok", "good"}

\* The alerts of the event made for the supply of a name with a severity.
AlertsOf(name, severity) ==
    {i \in DOMAIN eventAlerts :
        /\ cleanNameOf[eventAlerts[i].Message.supplyName] = name
        /\ eventAlerts[i].Severity = severity}

\* The entries of the event's supplies of a name with a status.
SuppliesOf(name, status) ==
    {i \in DOMAIN eventSupplies :
        /\ eventSupplies[i].Name = name
        /\ eventSupplies[i].Status = status}

\* C20: the alerts of an emitted event correspond one-to-one to the entries
\* of its supplies whose status is critical or low (severity critical for
\* critical, warning for low); a supply that is not in the supplies list, or
\* whose status is ok or good, has no alert.
C20_AlertsMatchSupplies ==
    spc = "built" =>
        /\ \A i \in DOMAIN eventAlerts :
              eventAlerts[i].Severity \in {"critical", "warning"}
        /\ \A name \in {cleanNameOf[d] : d \in SupplyDescriptions} :
              /\ Cardinality(AlertsOf(name, "critical"))
                    = Cardinality(SuppliesOf(name, "critical"))
              /\ Cardinality(AlertsOf(name, "warning"))
                    = Cardinality(SuppliesOf(name, "low"))

(***************************************************************************)
(* Claims about missing_sections (under SpecSections).                     *)
(***************************************************************************)
\* The number of times a section is named in missing_sections.
TimesMissing(name) ==
    Cardinality({i \in DOMAIN sections.MissingSections :
                    sections.MissingSections[i] = name})

\* The bucket of a section.
BucketOf(name) ==
    CASE name = "status"         -> sections.Status
      [] name = "supplies"       -> sections.Supplies
      [] name = "counters"       -> sections.Counters
      [] name = "identification" -> sections.Identification

\* C21: when collectFromDevice returns, each of status, supplies, counters
\* and identification is in missing_sections if and only if its bucket is
\* empty at that point, and no section is named more than once.
C21_MissingIffBucketEmpty ==
    mpc = "returned" =>
        \A name \in {"status", "supplies", "counters", "identification"} :
            /\ TimesMissing(name) <= 1
            /\ (TimesMissing(name) >= 1) <=> (BucketOf(name) = {})

(***************************************************************************)
(* Claims about the profile cache (under SpecProfile).                     *)
(***************************************************************************)
\* C22: under every interleaving of GetOrDiscover and SaveProfile calls for
\* one printer id, once all calls have finished the cached profile is the
\* last one saved, never an older record that a GetOrDiscover read from
\* disk before the save.
C22_CacheHoldsLastSaved ==
    ((\A p \in Procs : prpc[p] = "idle") /\ lastSaved # NoProfile)
        => cache = lastSaved

(***************************************************************************)
(* Claims about ParseIPRange (under SpecRange).                            *)
(***************************************************************************)
\* C23: "A.B.C.X-Y" with 0 <= X <= Y <= 255 gives exactly the ascending list
\* A.B.C.X ... A.B.C.Y, an IPv4 literal gives the one address, and every
\* other input (X > Y and octets above 255 included) gives a parse error.
C23_RangeParsedOrError ==
    rpc = "parsed" =>
        IF rangeInput.kind # "other" /\ rangeInput.x <= rangeInput.y /\ rangeInput.y <= 255
        THEN /\ ~parseResult.err
             /\ parseResult.ips = [k \in 1..(rangeInput.y - rangeInput.x + 1) |->
                                <<10, 0, 0, rangeInput.x + k - 1>>]
        ELSE parseResult.err

(***************************************************************************)
(* Claims about GetMultiple (under SpecGetMultiple).                       *)
(***************************************************************************)
\* C24: GetMultiple never sends more than 50 OIDs in one underlying GET;
\* when it returns a mapping, the GETs were consecutive batches that cover
\* each requested OID exactly once and the mapping holds every OID.
C24_BatchesOfAtMost50 ==
    /\ \A i \in DOMAIN getRequests : Cardinality(getRequests[i]) <= 50
    /\ (gmpc = "returned" /\ ~gmErr) =>
          /\ \A k \in 1..oidCount :
                Cardinality({i \in DOMAIN getRequests : k \in getRequests[i]}) = 1
          /\ \A i \in DOMAIN getRequests :
                \A j \in DOMAIN getRequests :
                    i < j => \A a \in getRequests[i] : \A b \in getRequests[j] : a < b
          /\ values = 1..oidCount

(***************************************************************************)
(* Claims about the termination of the fan-outs (under SpecFanFair).       *)
(***************************************************************************)
\* C25: for every input list and every max_concurrent_connections (0
\* included), when every probe and collection ends, a running Scan or
\* CollectData returns: nothing stays blocked on the semaphore or on the
\* results channel.
C25_FanOutReturns ==
    (fpc = "receiving") ~> (fpc = "returned")

(***************************************************************************)
(* Claims about the polls of one address (under SpecPolls).                *)
(***************************************************************************)
\* C26: when an event with counters is queued, and the previous queued
\* event is of the same printer, and no counter went down and no other
\* printer answered in between, and the state file holds a state written
\* by a poll of this printer, the delta of the event is its absolute
\* counters minus those of the previous queued event, field by field, also
\* when polls in between queued nothing.
C26_DeltaSinceLastQueued ==
    [][(/\ pollQueued'
        /\ pollEvent'.present
        /\ lastQueued.present
        /\ lastQueued.id = pollPrinter'
        /\ ~resetSince
        /\ pollFile.kind = "state"
        /\ fileWriter = pollPrinter'
        /\ \A f \in Fields : pollEvent'.absolute[f] >= lastRead[f])
       => /\ pollEvent'.delta.present
          /\ \A f \in Fields :
                pollEvent'.delta.value[f] =
                    pollEvent'.absolute[f] - lastQueued.absolute[f]]_vars

\* C27: a poll that could not read some counter, on a state file that holds
\* a value above 0 for it while no counter that was read went down, neither
\* reports reset_detected nor leaves 0 for that counter in the state file.
C27_UnreadCounterIsNotZero ==
    [][(/\ HasCounters(pollRead')
        /\ pollFile.kind = "state"
        /\ \E f \in Fields :
              pollRead'.NormalizedCounters[f] = Missing /\ pollFile.counters[f] > 0
        /\ \A f \in Fields :
              pollRead'.NormalizedCounters[f] # Missing =>
                  pollRead'.NormalizedCounters[f] >= pollFile.counters[f])
       => /\ ~pollEvent'.reset_detected
          /\ \A f \in Fields :
                (/\ pollRead'.NormalizedCounters[f] = Missing
                 /\ pollFile.counters[f] > 0
                 /\ pollFile'.kind = "state")
                => pollFile'.counters[f] # 0]_vars

\* C28: the state a poll computes its delta and reset_detected from was
\* written by a poll of the same printer.id.
C28_StateOfTheSamePrinter ==
    [][(pollEvent'.present /\ (pollEvent'.delta.present \/ pollEvent'.reset_detected))
       => fileWriter = pollPrinter']_vars

(***************************************************************************)
(* Claims about the validity of a profile (under SpecValidation).          *)
(***************************************************************************)
\* C30: asked immediately after a successful DiscoverAndSave,
\* NeedsRediscovery returns false; whenever it returns true for a cached
\* profile, the age, the success rate or the error count is beyond its
\* threshold after some later update.
C30_FreshProfileIsValid ==
    /\ (sinceDiscovery = "nothing" /\ needsRediscovery # "not asked")
          => needsRediscovery = "false"
    /\ (cachedProfile.exists /\ needsRediscovery = "true")
          => /\ sinceDiscovery # "nothing"
             /\ \/ cachedProfile.age > 7
                \/ BelowRate(cachedProfile.SuccessRate)
                \/ cachedProfile.ErrorCount > 5

(***************************************************************************)
(* Claims about the counters of a profile (under SpecCounters).            *)
(***************************************************************************)
\* C29: for a device with a profile, every value of the GET of the profile
\* OIDs that is kept is the normalized counter of the name its OID is
\* mapped to, whatever the magnitudes of the values.
C29_ProfileMappingByName ==
    (cpc = "collected" /\ readings.profile)
    => \A k \in DOMAIN readings.get :
          KeepValue("profile", readings.get[k])
          => collected.NormalizedCounters[generateCounterMappings[k]] = readings.get[k]

====
